---- MODULE Spec2Model ----
(***************************************************************************)
(* A model of the mock-record store of gmocky-v2 (internal/mock.go): the   *)
(* working directory as a map from file names to file contents, the four   *)
(* operations Get, List, New and Clean run by request handlers, and the    *)
(* response writer that renders a stored record after a capped delay.      *)
(*                                                                         *)
(* A Go string is a sequence of one-character strings; the symbol "xFF"    *)
(* stands for a byte that is not valid UTF-8 and "uFFFD" for the Unicode   *)
(* replacement rune.  A []byte is a sequence of numbers 0..255.  A UUID is *)
(* a number of 1..NumIds, 0 is the empty string where a UUID goes, -1 is   *)
(* the stem of a file in the directory that is no record's, and -2 is a    *)
(* UUID that was never issued.                                             *)
(***************************************************************************)
EXTENDS Integers, Sequences, FiniteSets, TLC

\* ------------------------------------------------------------------ bounds
NumIds == 3        \* UUIDs uuid.NewString may return to one handler
FewIds == 2        \* the same, where handlers race or requests vary a lot
MaxTicks == 2      \* seconds the wall clock may advance
MaxLimit == 2      \* largest maxLimit given to Clean
RaceLimit == 1     \* the maxLimit of every Clean where Cleans race

\* ------------------------------------------------------- reference data
\* pkg.HTTP_CODES: the supported status codes (its file is not part of the
\* sources at hand; the standard codes the endpoints mention).
HTTP_CODES == {200, 201, 204, 400, 404, 405, 409, 500}

CONTENT_TYPES ==
    {<<"a", "p", "p", "l", "i", "c", "a", "t", "i", "o", "n", "/", "j", "s", "o", "n">>,
     <<"a", "p", "p", "l", "i", "c", "a", "t", "i", "o", "n", "/", "x", "-", "w", "w", "w", "-", "f", "o", "r", "m", "-", "u", "r", "l", "e", "n", "c", "o", "d", "e", "d">>,
     <<"a", "p", "p", "l", "i", "c", "a", "t", "i", "o", "n", "/", "x", "h", "t", "m", "l", "+", "x", "m", "l">>,
     <<"a", "p", "p", "l", "i", "c", "a", "t", "i", "o", "n", "/", "x", "m", "l">>,
     <<"i", "m", "a", "g", "e", "/", "j", "p", "e", "g">>,
     <<"i", "m", "a", "g", "e", "/", "p", "n", "g">>,
     <<"i", "m", "a", "g", "e", "/", "s", "v", "g", "+", "x", "m", "l">>,
     <<"m", "u", "l", "t", "i", "p", "a", "r", "t", "/", "f", "o", "r", "m", "-", "d", "a", "t", "a">>,
     <<"t", "e", "x", "t", "/", "c", "s", "s">>,
     <<"t", "e", "x", "t", "/", "c", "s", "v">>,
     <<"t", "e", "x", "t", "/", "h", "t", "m", "l">>,
     <<"t", "e", "x", "t", "/", "j", "s", "o", "n">>,
     <<"t", "e", "x", "t", "/", "p", "l", "a", "i", "n">>,
     <<"t", "e", "x", "t", "/", "x", "m", "l">>}

CHARSET ==
    {<<"U", "T", "F", "-", "8">>,
     <<"I", "S", "O", "-", "8", "8", "5", "9", "-", "1">>,
     <<"U", "T", "F", "-", "1", "6">>}

\* ------------------------------------------------------------- strings
Digits == <<"0", "1", "2", "3", "4", "5", "6", "7", "8", "9">>

IsDigit(c) == \E i \in 1..10 : Digits[i] = c

DigitVal(c) == (CHOOSE i \in 1..10 : Digits[i] = c) - 1

\* The characters of the model in byte order: ASCII, then the replacement
\* rune U+FFFD (encoded EF BF BD), then the byte FF that is no valid UTF-8.
Alphabet ==
    <<" ", "+", "-", "/",
      "0", "1", "2", "3", "4", "5", "6", "7", "8", "9", ":",
      "F", "I", "O", "S", "T", "U",
      "a", "c", "d", "e", "f", "g", "h", "i", "j", "l", "m",
      "n", "o", "p", "r", "s", "t", "u", "v", "w", "x", "y",
      "uFFFD", "xFF">>

ByteRank(c) == CHOOSE i \in 1..Len(Alphabet) : Alphabet[i] = c

\* Go's < on strings: bytewise lexicographic.
RECURSIVE StrLess(_, _)
StrLess(a, b) ==
    IF b = <<>> THEN FALSE
    ELSE IF a = <<>> THEN TRUE
    ELSE IF ByteRank(Head(a)) # ByteRank(Head(b))
         THEN ByteRank(Head(a)) < ByteRank(Head(b))
    ELSE StrLess(Tail(a), Tail(b))

\* strconv.Atoi on an optionally signed decimal; "ok" is false on a syntax
\* error (empty, a sign alone, a character that is no digit) and on a range
\* error (a value no int holds).
RECURSIVE DigitsVal(_, _)
DigitsVal(s, acc) ==
    IF s = <<>> THEN acc ELSE DigitsVal(Tail(s), acc * 10 + DigitVal(Head(s)))

\* The digits of the largest int (64 bits), 9223372036854775807.
MaxIntDigits ==
    <<"9", "2", "2", "3", "3", "7", "2", "0", "3", "6", "8", "5", "4", "7", "7",
      "5", "8", "0", "7">>

\* The digits of the magnitude of the smallest int, -9223372036854775808.
MinIntDigits == [MaxIntDigits EXCEPT ![19] = "8"]

RECURSIVE StripZeros(_)
StripZeros(s) ==
    IF s # <<>> /\ Head(s) = "0" THEN StripZeros(Tail(s)) ELSE s

\* Whether a decimal is within the range of int, the limit being the decimal
\* of as many digits it may reach: a longer one is not, a shorter one is.
InRange(digits, limit) ==
    LET d == StripZeros(digits)
    IN  \/ Len(d) < Len(limit)
        \/ Len(d) = Len(limit) /\ ~StrLess(limit, d)

Atoi(s) ==
    LET signed == s # <<>> /\ Head(s) \in {"+", "-"}
        body == IF signed THEN Tail(s) ELSE s
        negative == signed /\ Head(s) = "-"
        ok == /\ body # <<>>
              /\ \A i \in 1..Len(body) : IsDigit(body[i])
              /\ InRange(body, IF negative THEN MinIntDigits ELSE MaxIntDigits)
    IN  [ok |-> ok,
         val |-> IF ~ok THEN 0
                 ELSE IF signed /\ Head(s) = "-" THEN 0 - DigitsVal(body, 0)
                 ELSE DigitsVal(body, 0)]

\* stringsutil.Int(value, defaultValue)
StringsutilInt(s, default) == IF Atoi(s).ok THEN Atoi(s).val ELSE default

\* ---------------------------------------------------------------- JSON
\* encoding/json writes a string coerced to valid UTF-8: each invalid byte
\* becomes the replacement rune.
CoerceUTF8(s) == [i \in 1..Len(s) |-> IF s[i] = "xFF" THEN "uFFFD" ELSE s[i]]

\* A map is marshalled with its keys sorted; two keys that coerce to the same
\* string give a repeated member, and the decoder keeps the last one.
MarshalMap(m) ==
    LET keys == {CoerceUTF8(k) : k \in DOMAIN m}
        last(ck) == CHOOSE k \in DOMAIN m :
                       /\ CoerceUTF8(k) = ck
                       /\ \A k2 \in DOMAIN m :
                            CoerceUTF8(k2) = ck /\ k2 # k => StrLess(k2, k)
    IN  [ck \in keys |-> CoerceUTF8(m[last(ck)])]

\* base64 (StdEncoding) of a []byte, as 6-bit values; B64Pad is '='.
B64Pad == 64

RECURSIVE B64Encode(_)
B64Encode(b) ==
    IF Len(b) = 0 THEN <<>>
    ELSE IF Len(b) = 1
         THEN <<b[1] \div 4, (b[1] % 4) * 16, B64Pad, B64Pad>>
    ELSE IF Len(b) = 2
         THEN <<b[1] \div 4, (b[1] % 4) * 16 + b[2] \div 16, (b[2] % 16) * 4, B64Pad>>
    ELSE <<b[1] \div 4, (b[1] % 4) * 16 + b[2] \div 16,
           (b[2] % 16) * 4 + b[3] \div 64, b[3] % 64>>
         \o B64Encode(SubSeq(b, 4, Len(b)))

RECURSIVE B64Decode(_)
B64Decode(e) ==
    IF Len(e) < 4 THEN <<>>
    ELSE LET q == SubSeq(e, 1, 4)
             b1 == q[1] * 4 + q[2] \div 16
             b2 == (q[2] % 16) * 16 + q[3] \div 4
             b3 == (q[3] % 4) * 64 + q[4]
         IN  IF q[3] = B64Pad THEN <<b1>>
             ELSE IF q[4] = B64Pad THEN <<b1, b2>>
             ELSE <<b1, b2, b3>> \o B64Decode(SubSeq(e, 5, Len(e)))

\* jsonsutil.Marshal(mock): the JSON document of a MockedRequest.
Marshal(mock) ==
    [kind |-> "json",
     UUID |-> mock.UUID,
     CreatedAt |-> CoerceUTF8(mock.CreatedAt),
     Status |-> mock.Status,
     ContentType |-> mock.ContentType,
     Charset |-> mock.Charset,
     Headers |-> MarshalMap(mock.Headers),
     Body |-> B64Encode(mock.Body)]

\* File contents that are not a JSON document.
Junk == [kind |-> "junk"]

\* jsonsutil.Unmarshal[MockedRequest](bytes)
UnmarshalMockedRequest(doc) ==
    IF doc.kind # "json" THEN [err |-> "unmarshal"]
    ELSE [err |-> "",
          val |-> [UUID |-> doc.UUID, CreatedAt |-> doc.CreatedAt,
                   Status |-> doc.Status, ContentType |-> doc.ContentType,
                   Charset |-> doc.Charset, Headers |-> doc.Headers,
                   Body |-> B64Decode(doc.Body)]]

\* jsonsutil.Unmarshal[MockedRequestLight](bytes): the other members are skipped.
UnmarshalMockedRequestLight(doc) ==
    IF doc.kind # "json" THEN [err |-> "unmarshal"]
    ELSE [err |-> "",
          val |-> [UUID |-> doc.UUID, CreatedAt |-> doc.CreatedAt,
                   Status |-> doc.Status, ContentType |-> doc.ContentType]]

\* MockedRequest.Equals
Equals(m, arg) ==
    /\ m.Status = arg.Status
    /\ m.ContentType = arg.ContentType
    /\ m.Charset = arg.Charset
    /\ m.Body = arg.Body
    /\ m.Headers = arg.Headers

\* ------------------------------------------------------------ the store
VARIABLES
    store,      \* the working directory: file name -> file content
    clock,      \* time.Now(), in seconds after 10:00:00 of the day
    pc,         \* each request handler's position
    loc,        \* each request handler's operation, arguments and locals
    ret,        \* what the handler's operation returned (at "done")
    created,    \* history: uuid -> the *MockedRequest New built and wrote
    issued,     \* history: the UUIDs uuid.NewString has returned
    counted,    \* history: the sum of the numbers Clean has returned
    removed,    \* history: per handler, the files its running Clean removed
    wpc,        \* the response writer's position
    wloc,       \* the response writer's arguments and locals
    out         \* the http.ResponseWriter: what was written to it

vars == <<store, clock, pc, loc, ret, created, issued, counted, removed, wpc, wloc, out>>

UUIDS == 1..NumIds

\* var mockId string = ""
EmptyId == 0

JsonExt == <<".", "j", "s", "o", "n">>

\* workingDirectory + "/" + mockId + ".json"
FilePath(mockId) == [stem |-> mockId, ext |-> JsonExt]

\* len(e.Name()): a UUID has 36 characters, the name of a file that is not
\* a record's is the three-character stem alone.
NameLen(name) == (IF name.stem \in UUIDS THEN 36 ELSE 3) + Len(name.ext)

NameLess(a, b) ==
    \/ a.stem < b.stem
    \/ a.stem = b.stem /\ Len(a.ext) < Len(b.ext)

\* os.ReadDir: the directory's entries sorted by file name.
RECURSIVE SortedNames(_)
SortedNames(names) ==
    IF names = {} THEN <<>>
    ELSE LET first == CHOOSE n \in names : \A m \in names \ {n} : NameLess(n, m)
         IN  <<first>> \o SortedNames(names \ {first})

ReadDir(dir) == SortedNames(DOMAIN dir)

\* iosutil.Load followed by jsonsutil.Unmarshal[MockedRequestLight]
GetLight(dir, mockId) ==
    IF FilePath(mockId) \notin DOMAIN dir THEN [err |-> "load"]
    ELSE UnmarshalMockedRequestLight(dir[FilePath(mockId)])

\* The transform List gives to slicesutil.TransformT.
EntryMockId(name) == IF NameLen(name) > 5 THEN name.stem ELSE EmptyId

\* One round of slicesutil.TransformT, whose source is not at hand: the value
\* of an entry whose transform gave no error is appended.  For an entry whose
\* transform gave (nil, err), List's call leaves three outcomes open: the
\* entry is left out, a zero MockedRequestLight is appended in its place, or
\* the nil pointer is dereferenced and the call panics.  None of them can
\* give the error to List, which has only the slice.
TransformStep(values, got) ==
    IF got.err = "" THEN {[panic |-> FALSE, values |-> Append(values, got.val)]}
    ELSE {[panic |-> FALSE, values |-> values],
          [panic |-> FALSE,
           values |-> Append(values, [UUID |-> EmptyId, CreatedAt |-> <<>>,
                                      Status |-> 0, ContentType |-> <<>>])],
          [panic |-> TRUE, values |-> values]}

\* SortT leaving the values in any order.
SortTAnyOrder(values) ==
    {[i \in 1..Len(values) |-> values[p[i]]] : p \in Permutations(1..Len(values))}

\* SortT with the comparison the other way round: oldest first.
SortTAscending(values) ==
    {[i \in 1..Len(values) |-> values[p[i]]] : p \in
        {q \in Permutations(1..Len(values)) :
            \A i, j \in 1..Len(values) :
                i < j => ~StrLess(values[q[j]].CreatedAt, values[q[i]].CreatedAt)}}

\* slicesutil.SortT with List's comparison: a value goes before another
\* when its CreatedAt is the greater string.  The order of values with the
\* same CreatedAt is whatever the sort leaves: every outcome is allowed.
SortT(values) ==
    {[i \in 1..Len(values) |-> values[p[i]]] : p \in
        {q \in Permutations(1..Len(values)) :
            \A i, j \in 1..Len(values) :
                i < j => ~StrLess(values[q[i]].CreatedAt, values[q[j]].CreatedAt)}}

\* Remove that empties the file and leaves its name in the directory.
RemoveTruncates(dir, name, permitted) ==
    IF name \in DOMAIN dir /\ permitted
    THEN [ok |-> TRUE, dir |-> [n \in DOMAIN dir |-> IF n = name THEN Junk ELSE dir[n]]]
    ELSE [ok |-> FALSE, dir |-> dir]

\* Remove whose error is lost: ok whatever happened.
RemoveReportsSuccess(dir, name, permitted) ==
    IF name \in DOMAIN dir /\ permitted
    THEN [ok |-> TRUE, dir |-> [n \in DOMAIN dir \ {name} |-> dir[n]]]
    ELSE [ok |-> TRUE, dir |-> dir]

\* os.Remove(path): the file is gone afterwards; ok is false, and nothing
\* changes, when there is no such file or the system refuses.
Remove(dir, name, permitted) ==
    IF name \in DOMAIN dir /\ permitted
    THEN [ok |-> TRUE, dir |-> [n \in DOMAIN dir \ {name} |-> dir[n]]]
    ELSE [ok |-> FALSE, dir |-> dir]

\* iosutil.Write(bytes, path)
Write(dir, name, bytes) ==
    [n \in DOMAIN dir \cup {name} |-> IF n = name THEN bytes ELSE dir[n]]

\* time.Now().Format("2006-01-02 15:04:05")
Format(t) ==
    LET TwoDigits(n) == <<Digits[(n \div 10) + 1], Digits[(n % 10) + 1]>>
    IN  <<"2", "0", "2", "4", "-", "0", "1", "-", "0", "1", " ", "1", "0", ":">>
        \o TwoDigits((t \div 60) % 60) \o <<":">> \o TwoDigits(t % 60)

\* NewString that may return a UUID again.
NewStringRepeats(pool) == pool

\* uuid.NewString(): a UUID of the pool it has not returned before.
NewString(pool) == pool \ issued

\* ------------------------------------------------------------ Mock.New
ParamStatus == <<"s", "t", "a", "t", "u", "s">>
ParamContentType == <<"c", "o", "n", "t", "e", "n", "t", "T", "y", "p", "e">>
ParamCharset == <<"c", "h", "a", "r", "s", "e", "t">>

getReqParam(values) == IF Len(values) = 0 THEN <<>> ELSE values[1]

\* BuildMock taking the last value of a parameter for a header.
BuildMockLastValue(uuid, now, reqParams, reqBody) ==
    [UUID |-> uuid,
     CreatedAt |-> Format(now),
     Status |-> IF ParamStatus \in DOMAIN reqParams
                THEN StringsutilInt(getReqParam(reqParams[ParamStatus]), -1)
                ELSE 0,
     ContentType |-> IF ParamContentType \in DOMAIN reqParams
                     THEN getReqParam(reqParams[ParamContentType]) ELSE <<>>,
     Charset |-> IF ParamCharset \in DOMAIN reqParams
                 THEN getReqParam(reqParams[ParamCharset]) ELSE <<>>,
     Headers |-> [name \in {n \in DOMAIN reqParams :
                              /\ n \notin {ParamStatus, ParamContentType, ParamCharset}
                              /\ Len(reqParams[n]) > 0}
                    |-> reqParams[name][Len(reqParams[name])]],
     Body |-> reqBody]

\* The mock New builds from the request: the loop over reqParams.
BuildMock(uuid, now, reqParams, reqBody) ==
    [UUID |-> uuid,
     CreatedAt |-> Format(now),
     Status |-> IF ParamStatus \in DOMAIN reqParams
                THEN StringsutilInt(getReqParam(reqParams[ParamStatus]), -1)
                ELSE 0,
     ContentType |-> IF ParamContentType \in DOMAIN reqParams
                     THEN getReqParam(reqParams[ParamContentType]) ELSE <<>>,
     Charset |-> IF ParamCharset \in DOMAIN reqParams
                 THEN getReqParam(reqParams[ParamCharset]) ELSE <<>>,
     Headers |-> [name \in {n \in DOMAIN reqParams :
                              /\ n \notin {ParamStatus, ParamContentType, ParamCharset}
                              /\ Len(reqParams[n]) > 0}
                    |-> reqParams[name][1]],
     Body |-> reqBody]

Nil == <<>>

\* Validate with the content type checked before the status.
ValidateContentTypeFirst(mock) ==
    IF mock.ContentType \notin CONTENT_TYPES
    THEN <<"content type does not exist", mock.ContentType>>
    ELSE IF mock.Status \notin HTTP_CODES
    THEN <<"status does not exist", mock.Status>>
    ELSE IF mock.Charset \notin CHARSET
    THEN <<"charset does not exist", mock.Charset>>
    ELSE Nil

\* The three membership checks of New, in their order; Nil when all pass.
Validate(mock) ==
    IF mock.Status \notin HTTP_CODES
    THEN <<"status does not exist", mock.Status>>
    ELSE IF mock.ContentType \notin CONTENT_TYPES
    THEN <<"content type does not exist", mock.ContentType>>
    ELSE IF mock.Charset \notin CHARSET
    THEN <<"charset does not exist", mock.Charset>>
    ELSE Nil

NoLoc == [op |-> "", id |-> EmptyId, known |-> FALSE, limit |-> 0,
          params |-> <<>>, arg |-> Nil,
          bytes |-> Junk, entries |-> <<>>, values |-> <<>>, todo |-> <<>>, nb |-> 0]

NoRet == [err |-> Nil, val |-> Nil]

Handlers == DOMAIN pc

\* iosutil.Write, first half: the file is created, empty.
Create(dir, name) == Write(dir, name, Junk)

\* iosutil.Write returning an error after it created the file: the file
\* holds a part of the bytes only, or all of them (the error is that of
\* closing the file).
WriteFailed(dir, name, bytes) == {Write(dir, name, Junk), Write(dir, name, bytes)}

\* New(reqParams, reqBody) up to the write, called when elapsed seconds have
\* passed since the last call: the UUID and the time are taken, the mock is
\* built and checked.
NewCall(h, pool, elapsed, reqParams, reqBody) ==
    /\ pc[h] = "idle"
    /\ clock + elapsed <= 59 + MaxTicks
    /\ clock' = clock + elapsed
    /\ \E uuid \in NewString(pool) :
         LET mock == BuildMock(uuid, clock', reqParams, reqBody)
             invalid == Validate(mock)
         IN  /\ issued' = issued \cup {uuid}
             /\ loc' = [loc EXCEPT ![h] = [NoLoc EXCEPT !.op = "New", !.params = reqParams,
                                                      !.arg = mock]]
             /\ IF invalid # Nil
                THEN /\ ret' = [ret EXCEPT ![h] = [err |-> invalid, val |-> Nil]]
                     /\ pc' = [pc EXCEPT ![h] = "done"]
                ELSE /\ ret' = ret
                     /\ pc' = [pc EXCEPT ![h] = "new_write"]
    /\ UNCHANGED <<store, created, counted, removed, wpc, wloc, out>>

\* iosutil.Write(reqBody, path) in New, first half: the file is created, or
\* the storage refuses and New returns the error.
NewWrite(h, writable) ==
    /\ pc[h] = "new_write"
    /\ IF writable
       THEN /\ store' = Create(store, FilePath(loc[h].arg.UUID))
            /\ pc' = [pc EXCEPT ![h] = "new_fill"]
            /\ ret' = ret
       ELSE /\ store' = store
            /\ pc' = [pc EXCEPT ![h] = "done"]
            /\ ret' = [ret EXCEPT ![h] = [err |-> <<"write">>, val |-> Nil]]
    /\ UNCHANGED <<clock, loc, created, issued, counted, removed, wpc, wloc, out>>

\* iosutil.Write in New, second half, and New's return: the bytes are in
\* the file and New returns the UUID, or the write fails and New returns the
\* error, leaving the file as the write left it.
NewFill(h, writable) ==
    /\ pc[h] = "new_fill"
    /\ LET mock == loc[h].arg
           name == FilePath(mock.UUID)
       IN  IF writable
           THEN /\ store' = Write(store, name, Marshal(mock))
                /\ created' = [u \in DOMAIN created \cup {mock.UUID} |->
                                  IF u = mock.UUID THEN mock ELSE created[u]]
                /\ ret' = [ret EXCEPT ![h] = [err |-> Nil, val |-> mock.UUID]]
           ELSE /\ store' \in WriteFailed(store, name, Marshal(mock))
                /\ created' = created
                /\ ret' = [ret EXCEPT ![h] = [err |-> <<"write">>, val |-> Nil]]
    /\ pc' = [pc EXCEPT ![h] = "done"]
    /\ UNCHANGED <<clock, loc, issued, counted, removed, wpc, wloc, out>>

\* ------------------------------------------------------------ Mock.Get
\* iosutil.Load(path) in get: the file's bytes, or the error of a missing
\* file; arg is what the caller of Get was asked for, kept for the record.
GetLoad(h, mockId, arg) ==
    /\ pc[h] = "idle"
    /\ IF FilePath(mockId) \in DOMAIN store
       THEN /\ loc' = [loc EXCEPT ![h] = [NoLoc EXCEPT !.op = "Get", !.id = mockId,
                                            !.arg = arg,
                                            !.known = mockId \in DOMAIN created,
                                            !.bytes = store[FilePath(mockId)]]]
            /\ pc' = [pc EXCEPT ![h] = "get_unmarshal"]
            /\ ret' = ret
       ELSE /\ loc' = [loc EXCEPT ![h] = [NoLoc EXCEPT !.op = "Get", !.id = mockId,
                                            !.arg = arg,
                                            !.known = mockId \in DOMAIN created]]
            /\ pc' = [pc EXCEPT ![h] = "done"]
            /\ ret' = [ret EXCEPT ![h] = [err |-> <<"load">>, val |-> Nil]]
    /\ UNCHANGED <<store, clock, created, issued, counted, removed, wpc, wloc, out>>

\* jsonsutil.Unmarshal[MockedRequest](bytes) in get, and the return.
GetUnmarshal(h) ==
    /\ pc[h] = "get_unmarshal"
    /\ LET got == UnmarshalMockedRequest(loc[h].bytes)
       IN  ret' = [ret EXCEPT ![h] =
                     IF got.err # "" THEN [err |-> <<got.err>>, val |-> Nil]
                     ELSE [err |-> Nil, val |-> got.val]]
    /\ pc' = [pc EXCEPT ![h] = "done"]
    /\ UNCHANGED <<store, clock, loc, created, issued, counted, removed, wpc, wloc, out>>

\* ----------------------------------------------------------- Mock.List
\* os.ReadDir in List, called for itself (op "List") or by Clean.
ListReadDir(h, readable) ==
    /\ pc[h] = "idle"
    /\ IF readable
       THEN /\ loc' = [loc EXCEPT ![h] = [NoLoc EXCEPT !.op = "List",
                                            !.entries = ReadDir(store)]]
            /\ pc' = [pc EXCEPT ![h] = "list_get"]
            /\ ret' = ret
       ELSE /\ loc' = [loc EXCEPT ![h] = [NoLoc EXCEPT !.op = "List"]]
            /\ pc' = [pc EXCEPT ![h] = "done"]
            /\ ret' = [ret EXCEPT ![h] = [err |-> <<"readdir">>, val |-> Nil]]
    /\ UNCHANGED <<store, clock, created, issued, counted, removed, wpc, wloc, out>>

\* One round of TransformT's loop: get[MockedRequestLight] of the next entry.
ListGet(h) ==
    /\ pc[h] = "list_get"
    /\ loc[h].entries # <<>>
    /\ \E step \in TransformStep(loc[h].values,
                                 GetLight(store, EntryMockId(Head(loc[h].entries)))) :
         /\ loc' = [loc EXCEPT ![h].entries = Tail(@), ![h].values = step.values]
         /\ pc' = IF step.panic THEN [pc EXCEPT ![h] = "panicked"] ELSE pc
    /\ UNCHANGED <<store, clock, ret, created, issued, counted, removed, wpc, wloc, out>>

\* SortT and List's return, when List was called for itself.
ListReturn(h) ==
    /\ pc[h] = "list_get"
    /\ loc[h].entries = <<>>
    /\ loc[h].op = "List"
    /\ \E values \in SortT(loc[h].values) :
         ret' = [ret EXCEPT ![h] = [err |-> Nil, val |-> values]]
    /\ pc' = [pc EXCEPT ![h] = "done"]
    /\ UNCHANGED <<store, clock, loc, created, issued, counted, removed, wpc, wloc, out>>

\* ---------------------------------------------------------- Mock.Clean
\* CleanCall that calls List before it looks at maxLimit.
CleanCallListsFirst(h, maxLimit, readable) ==
    /\ pc[h] = "idle"
    /\ IF ~readable
       THEN /\ loc' = [loc EXCEPT ![h] = [NoLoc EXCEPT !.op = "Clean",
                                            !.limit = maxLimit]]
            /\ pc' = [pc EXCEPT ![h] = "done"]
            /\ ret' = [ret EXCEPT ![h] = [err |-> <<"readdir">>, val |-> 0]]
       ELSE IF maxLimit < 1
       THEN /\ loc' = [loc EXCEPT ![h] = [NoLoc EXCEPT !.op = "Clean",
                                            !.limit = maxLimit]]
            /\ pc' = [pc EXCEPT ![h] = "done"]
            /\ ret' = [ret EXCEPT ![h] = [err |-> Nil, val |-> 0]]
       ELSE /\ loc' = [loc EXCEPT ![h] = [NoLoc EXCEPT !.op = "Clean",
                                            !.limit = maxLimit,
                                            !.entries = ReadDir(store)]]
            /\ pc' = [pc EXCEPT ![h] = "list_get"]
            /\ ret' = ret
    /\ removed' = [removed EXCEPT ![h] = {}]
    /\ UNCHANGED <<store, clock, created, issued, counted, wpc, wloc, out>>

\* Clean(maxLimit) up to os.ReadDir of its List.
CleanCall(h, maxLimit, readable) ==
    /\ pc[h] = "idle"
    /\ IF maxLimit < 1
       THEN /\ loc' = [loc EXCEPT ![h] = [NoLoc EXCEPT !.op = "Clean",
                                            !.limit = maxLimit]]
            /\ pc' = [pc EXCEPT ![h] = "done"]
            /\ ret' = [ret EXCEPT ![h] = [err |-> Nil, val |-> 0]]
       ELSE IF ~readable
       THEN /\ loc' = [loc EXCEPT ![h] = [NoLoc EXCEPT !.op = "Clean",
                                            !.limit = maxLimit]]
            /\ pc' = [pc EXCEPT ![h] = "done"]
            /\ ret' = [ret EXCEPT ![h] = [err |-> <<"readdir">>, val |-> 0]]
       ELSE /\ loc' = [loc EXCEPT ![h] = [NoLoc EXCEPT !.op = "Clean",
                                            !.limit = maxLimit,
                                            !.entries = ReadDir(store)]]
            /\ pc' = [pc EXCEPT ![h] = "list_get"]
            /\ ret' = ret
    /\ removed' = [removed EXCEPT ![h] = {}]
    /\ UNCHANGED <<store, clock, created, issued, counted, wpc, wloc, out>>

\* ToDelete with the slice taken from the front: mockedRequests[:nbToDelete]
ToDeleteFront(mockedRequests, maxLimit) ==
    LET nbToDelete == Len(mockedRequests) - maxLimit
    IN  IF nbToDelete < 1 THEN <<>> ELSE SubSeq(mockedRequests, 1, nbToDelete)

\* mockedRequests[len(mockedRequests)-nbToDelete:]
ToDelete(mockedRequests, maxLimit) ==
    LET nbToDelete == Len(mockedRequests) - maxLimit
    IN  IF nbToDelete < 1 THEN <<>>
        ELSE SubSeq(mockedRequests, Len(mockedRequests) - nbToDelete + 1,
                    Len(mockedRequests))

\* The end of Clean's List, nbToDelete and the slice to delete.
CleanSelect(h) ==
    /\ pc[h] = "list_get"
    /\ loc[h].entries = <<>>
    /\ loc[h].op = "Clean"
    /\ \E mockedRequests \in SortT(loc[h].values) :
         LET todo == ToDelete(mockedRequests, loc[h].limit)
         IN  IF todo = <<>>
             THEN /\ pc' = [pc EXCEPT ![h] = "done"]
                  /\ ret' = [ret EXCEPT ![h] = [err |-> Nil, val |-> 0]]
                  /\ loc' = [loc EXCEPT ![h].values = mockedRequests]
             ELSE /\ pc' = [pc EXCEPT ![h] = "clean_remove"]
                  /\ ret' = ret
                  /\ loc' = [loc EXCEPT ![h].values = mockedRequests,
                                        ![h].todo = todo]
    /\ UNCHANGED <<store, clock, created, issued, counted, removed, wpc, wloc, out>>

\* One round of Clean's loop, and the return after the last one.
CleanRemove(h, permitted) ==
    /\ pc[h] = "clean_remove"
    /\ loc[h].todo # <<>>
    /\ LET name == FilePath(Head(loc[h].todo).UUID)
           rm == Remove(store, name, permitted)
           nb == IF rm.ok THEN loc[h].nb + 1 ELSE loc[h].nb
       IN  /\ store' = rm.dir
           /\ removed' = [removed EXCEPT ![h] = @ \cup (DOMAIN store \ DOMAIN rm.dir)]
           /\ loc' = [loc EXCEPT ![h].todo = Tail(@), ![h].nb = nb]
           /\ IF Tail(loc[h].todo) = <<>>
              THEN /\ pc' = [pc EXCEPT ![h] = "done"]
                   /\ ret' = [ret EXCEPT ![h] = [err |-> Nil, val |-> nb]]
              ELSE /\ pc' = pc
                   /\ ret' = ret
    /\ UNCHANGED <<clock, created, issued, counted, wpc, wloc, out>>

\* The call has returned, or has panicked and returned nothing: the handler
\* is done with its request and takes the next one.
Return(h) ==
    /\ pc[h] \in {"done", "panicked"}
    /\ pc' = [pc EXCEPT ![h] = "idle"]
    /\ loc' = [loc EXCEPT ![h] = NoLoc]
    /\ ret' = [ret EXCEPT ![h] = NoRet]
    /\ removed' = [removed EXCEPT ![h] = {}]
    /\ counted' = IF pc[h] = "done" /\ loc[h].op = "Clean" THEN counted + ret[h].val
                  ELSE counted
    /\ UNCHANGED <<store, clock, created, issued, wpc, wloc, out>>

\* ------------------------------------------------- the response writer
\* Response.Write(mock, delay) of a Response made by NewResponse(w, maxDelay),
\* after the description of the Response Writer: its source is not among the
\* sources at hand, its tests are.  A duration is a number of nanoseconds.

\* A number of any size (a uint64 before it is known to fit, the digits of a
\* float64): its digits in base 10000, the first of them not 0; no digit at
\* all is 0.  60000000000 is <<600, 0, 0>>.
Base == 10000

\* n without the zeros it begins with.
Trim(n) ==
    SubSeq(n, Cardinality({i \in 1..Len(n) : \A j \in 1..i : n[j] = 0}) + 1, Len(n))

\* The number an integer k >= 0 is.
NatOf(k) == Trim(<<k \div (Base * Base), (k \div Base) % Base, k % Base>>)

\* The number a string of decimal digits writes.
NatOfDigits(s) ==
    LET n == Len(s)
        count == (n + 3) \div 4
        digit(pos) == IF pos >= 1 THEN DigitVal(s[pos]) ELSE 0
        group(last) == digit(last - 3) * 1000 + digit(last - 2) * 100
                       + digit(last - 1) * 10 + digit(last)
    IN  IF s = <<>> THEN <<>>
        ELSE Trim([i \in 1..count |-> group(n - 4 * (count - i))])

NatLess(a, b) ==
    \/ Len(a) < Len(b)
    \/ /\ Len(a) = Len(b)
       /\ \E i \in 1..Len(a) : a[i] < b[i] /\ \A j \in 1..(i - 1) : a[j] = b[j]

\* The digit of rank i of a, the lowest rank being 1.
Rank(a, i) == IF i <= Len(a) THEN a[Len(a) + 1 - i] ELSE 0

\* a + b: a rank takes a carry when a rank below gives one and the ranks
\* between pass it on.
NatAdd(a, b) ==
    LET n == IF Len(a) > Len(b) THEN Len(a) ELSE Len(b)
        raw == [i \in 1..(n + 1) |-> Rank(a, i) + Rank(b, i)]
        carry(i) == IF \E j \in 1..(i - 1) :
                          raw[j] >= Base /\ \A k \in (j + 1)..(i - 1) : raw[k] = Base - 1
                    THEN 1 ELSE 0
    IN  IF a = <<>> THEN b
        ELSE IF b = <<>> THEN a
        ELSE Trim([i \in 1..(n + 1) |-> (raw[n + 2 - i] + carry(n + 2 - i)) % Base])

\* a - b for a >= b: a rank lends when a rank below borrows and the ranks
\* between pass it on.
NatSub(a, b) ==
    LET n == Len(a)
        borrow(i) == IF \E j \in 1..(i - 1) :
                           /\ Rank(a, j) < Rank(b, j)
                           /\ \A k \in (j + 1)..(i - 1) : Rank(a, k) = Rank(b, k)
                     THEN 1 ELSE 0
    IN  IF b = <<>> THEN a
        ELSE Trim([i \in 1..n |->
                     (Rank(a, n + 1 - i) - Rank(b, n + 1 - i) - borrow(n + 1 - i) + Base)
                     % Base])

\* a * k for k up to 65536: the digits from the last, each with what the
\* digits after it carry.
NatMul(a, k) ==
    LET RECURSIVE Carried(_, _)
        Carried(rest, carry) ==
            IF rest = <<>> THEN NatOf(carry)
            ELSE LET t == rest[Len(rest)] * k + carry
                 IN  Carried(SubSeq(rest, 1, Len(rest) - 1), t \div Base) \o <<t % Base>>
    IN  IF k = 0 THEN <<>> ELSE Carried(a, 0)

\* a * 10^zeros
Shift(a, zeros) ==
    IF a = <<>> THEN <<>>
    ELSE NatMul(a, 10^(zeros % 4)) \o [i \in 1..(zeros \div 4) |-> 0]

\* a * b: a times the last digit of b, added to a times the rest of b.
RECURSIVE NatTimes(_, _)
NatTimes(a, b) ==
    IF a = <<>> \/ b = <<>> THEN <<>>
    ELSE IF Len(b) = 1 THEN NatMul(a, b[1])
    ELSE CHOOSE sum \in {NatAdd(rest \o <<0>>, last) :
                            rest \in {NatTimes(a, SubSeq(b, 1, Len(b) - 1))},
                            last \in {NatMul(a, b[Len(b)])}} : TRUE

\* The quotient and the remainder of p by q: the long division, p being what
\* is left of the dividend.  Place finds the digit d of the quotient,
\* q * d <= r < q * (d + 1) for r < q * Base, a decimal place at a time, the
\* highest first.
RECURSIVE DivStep(_, _, _, _)
DivStep(p, q, quo, rem) ==
    LET RECURSIVE Place(_, _, _)
        Place(r, low, place) ==
            IF place = 0 THEN low
            ELSE CHOOSE d \in {Place(r, low + c * place, place \div 10) :
                                  c \in {c \in 0..9 :
                                            /\ ~NatLess(r, NatMul(q, low + c * place))
                                            /\ NatLess(r, NatMul(q, low + (c + 1) * place))}} :
                     TRUE
    IN  IF p = <<>> THEN [quo |-> Trim(quo), rem |-> rem]
        ELSE CHOOSE res \in UNION {{DivStep(Tail(p), q, Append(quo, d),
                                            NatSub(r, NatMul(q, d))) :
                                       d \in {Place(r, 0, 1000)}} :
                                      r \in {Trim(Append(rem, Head(p)))}} : TRUE

\* The digits of p that are fewer than the digits of q are less than q.
NatDiv(p, q) ==
    IF q = <<1>> THEN [quo |-> p, rem |-> <<>>]
    ELSE IF Len(p) < Len(q) THEN [quo |-> <<>>, rem |-> p]
    ELSE DivStep(SubSeq(p, Len(q), Len(p)), q, <<>>, SubSeq(p, 1, Len(q) - 1))

\* 2^n, sixteen doublings at a time.
RECURSIVE Pow2(_)
Pow2(n) ==
    IF n < 16 THEN NatOf(2^n)
    ELSE CHOOSE power \in {NatMul(rest, 65536) : rest \in {Pow2(n - 16)}} : TRUE

\* A float64 above zero: m * 2^e with 2^52 <= m <= 2^53.  float64(p, q) is
\* the one nearest to p / q, the even one of two that are as near.
\* Ratio(p, q, e) is p / (q * 2^e).
Ratio(p, q, e) ==
    IF e >= 0 THEN [num |-> p, den |-> NatTimes(q, Pow2(e)), e |-> e]
    ELSE [num |-> NatTimes(p, Pow2(0 - e)), den |-> q, e |-> e]

\* The e with 2^52 <= p / (q * 2^e) < 2^53, looked for from e on.
RECURSIVE Exponent(_, _, _)
Exponent(p, q, e) ==
    CHOOSE found \in {IF NatLess(r.num, r.den) THEN Exponent(p, q, e - 1)
                      ELSE IF ~NatLess(r.num, NatMul(r.den, 2)) THEN Exponent(p, q, e + 1)
                      ELSE e :
                         r \in {Ratio(p, q, e + 52)}} : TRUE

float64(p, q) ==
    LET DecLen(a) ==
            4 * (Len(a) - 1)
            + (IF a[1] >= 1000 THEN 4 ELSE IF a[1] >= 100 THEN 3
               ELSE IF a[1] >= 10 THEN 2 ELSE 1)
        Nearest(e, dm, den) ==
            [m |-> IF \/ NatLess(den, NatMul(dm.rem, 2))
                      \/ (NatMul(dm.rem, 2) = den /\ dm.quo[Len(dm.quo)] % 2 = 1)
                   THEN NatAdd(dm.quo, <<1>>) ELSE dm.quo,
             e |-> e]
    IN  IF p = <<>> THEN [m |-> <<>>, e |-> 0]
        ELSE CHOOSE f \in UNION {{Nearest(r.e, dm, r.den) : dm \in {NatDiv(r.num, r.den)}} :
                                    r \in {Ratio(p, q,
                                                 Exponent(p, q,
                                                          ((DecLen(p) - DecLen(q)) * 10)
                                                          \div 3 - 53))}} : TRUE

\* a * b for float64s
FloatMul(a, b) ==
    float64(IF a.e + b.e >= 0 THEN NatTimes(NatTimes(a.m, b.m), Pow2(a.e + b.e))
            ELSE NatTimes(a.m, b.m),
            IF a.e + b.e >= 0 THEN <<1>> ELSE Pow2(0 - (a.e + b.e)))

\* n / b for a number n and a float64 b that are exact
FloatDiv(n, b) ==
    float64(IF b.e >= 0 THEN n ELSE NatTimes(n, Pow2(0 - b.e)),
            IF b.e >= 0 THEN NatTimes(b.m, Pow2(b.e)) ELSE b.m)

\* uint64(a) for a float64 a
FloatTrunc(a) ==
    IF a.e >= 0 THEN NatTimes(a.m, Pow2(a.e))
    ELSE NatDiv(a.m, Pow2(0 - a.e)).quo

\* 1<<63
TwoTo63 == NatOfDigits(MinIntDigits)

\* time.Duration: a number of nanoseconds, negative or not.
Duration(neg, ns) == [neg |-> neg /\ ns # <<>>, ns |-> ns]
ZeroDuration == Duration(FALSE, <<>>)
Second == Shift(<<1>>, 9)

DurationLess(a, b) ==
    IF a.neg # b.neg THEN a.neg
    ELSE IF a.neg THEN NatLess(b.ns, a.ns) ELSE NatLess(a.ns, b.ns)

\* time's unitMap: the nanoseconds of a unit, as a small factor and a power
\* of ten ("u00B5" and "u03BC" are the micro sign and the Greek letter mu).
unitMap(u) ==
    IF u = <<"n", "s">> THEN [known |-> TRUE, factor |-> 1, zeros |-> 0]
    ELSE IF u \in {<<"u", "s">>, <<"u00B5", "s">>, <<"u03BC", "s">>}
    THEN [known |-> TRUE, factor |-> 1, zeros |-> 3]
    ELSE IF u = <<"m", "s">> THEN [known |-> TRUE, factor |-> 1, zeros |-> 6]
    ELSE IF u = <<"s">> THEN [known |-> TRUE, factor |-> 1, zeros |-> 9]
    ELSE IF u = <<"m">> THEN [known |-> TRUE, factor |-> 6, zeros |-> 10]
    ELSE IF u = <<"h">> THEN [known |-> TRUE, factor |-> 36, zeros |-> 11]
    ELSE [known |-> FALSE, factor |-> 0, zeros |-> 0]

\* The length of the digits s begins with.
DigitRun(s) == Cardinality({i \in 1..Len(s) : \A j \in 1..i : IsDigit(s[j])})

\* The scale of leadingFraction after k digits: 1, k times multiplied by 10.
RECURSIVE Scale(_)
Scale(k) ==
    IF k = 0 THEN float64(<<1>>, <<1>>)
    ELSE CHOOSE scale \in {FloatMul(before, float64(<<10>>, <<1>>)) :
                              before \in {Scale(k - 1)}} : TRUE

\* time's leadingFraction: the digits after the point are taken as long as
\* the number they make fits, the ones after that are dropped; x is the
\* number and k the count of the digits taken (the scale is 10^k).
RECURSIVE leadingFraction(_, _, _)
leadingFraction(s, x, k) ==
    LET MaxInt63Tenth == NatOfDigits(SubSeq(MaxIntDigits, 1, 18))
    IN  IF s = <<>> \/ NatLess(MaxInt63Tenth, x) THEN [x |-> x, k |-> k]
        ELSE LET y == NatAdd(NatMul(x, 10), NatOf(DigitVal(Head(s))))
             IN  IF NatLess(TwoTo63, y) THEN [x |-> x, k |-> k]
                 ELSE leadingFraction(Tail(s), y, k + 1)

\* The loop of time.ParseDuration over the terms (a number, a fraction, a
\* unit) of s, d being the nanoseconds of the terms before.  The unit is
\* what comes before a digit or a point.  The fraction adds
\* uint64(float64(f) * (float64(unit) / scale)), which is 0 for a scale above
\* 10^32: f is less than 1<<63, and an hour is 3.6e12 ns.  The sum is a
\* uint64, 1<<64 being 0.
RECURSIVE parseTerms(_, _)
parseTerms(s, d) ==
    IF s = <<>> THEN [ok |-> TRUE, d |-> d]
    ELSE
    LET pre == DigitRun(s)
        v == NatOfDigits(SubSeq(s, 1, pre))
        s1 == SubSeq(s, pre + 1, Len(s))
        point == s1 # <<>> /\ Head(s1) = "."
        s2 == IF point THEN Tail(s1) ELSE s1
        post == IF point THEN DigitRun(s2) ELSE 0
        s3 == SubSeq(s2, post + 1, Len(s2))
        i == Cardinality({n \in 1..Len(s3) :
                             \A j \in 1..n : ~IsDigit(s3[j]) /\ s3[j] # "."})
        unit == unitMap(SubSeq(s3, 1, i))
        bad == [ok |-> FALSE, d |-> <<>>]
        Wrapped(sum, TwoTo64) ==
            IF NatLess(sum, TwoTo64) THEN sum ELSE NatSub(sum, TwoTo64)
        Summed(total) ==
            IF NatLess(TwoTo63, total) THEN bad
            ELSE parseTerms(SubSeq(s3, i + 1, Len(s3)), total)
        Added(whole, term) ==
            IF NatLess(TwoTo63, whole) THEN bad
            ELSE IF NatLess(TwoTo63, term) THEN bad
            ELSE Summed(Wrapped(NatAdd(d, term), NatMul(TwoTo63, 2)))
    IN  IF ~(Head(s) = "." \/ IsDigit(Head(s))) THEN bad
        ELSE IF NatLess(TwoTo63, v) THEN bad
        ELSE IF pre = 0 /\ post = 0 THEN bad
        ELSE IF i = 0 THEN bad
        ELSE IF ~unit.known THEN bad
        ELSE CHOOSE res \in
                 {Added(whole, NatAdd(whole, part)) :
                     whole \in {Shift(NatMul(v, unit.factor), unit.zeros)},
                     part \in {IF f.x = <<>> \/ f.k > 32 THEN <<>>
                               ELSE FloatTrunc(
                                        FloatMul(float64(f.x, <<1>>),
                                                 FloatDiv(Shift(NatOf(unit.factor), unit.zeros),
                                                          Scale(f.k)))) :
                                  f \in {leadingFraction(SubSeq(s2, 1, post), <<>>, 0)}}} : TRUE

\* time.ParseDuration: an optional sign, then "0" or terms; the sum of the
\* terms must fit a Duration.
ParseDuration(s) ==
    LET signed == s # <<>> /\ Head(s) \in {"+", "-"}
        neg == signed /\ Head(s) = "-"
        body == IF signed THEN Tail(s) ELSE s
        bad == [ok |-> FALSE, val |-> ZeroDuration]
        Fitting(terms) ==
            IF ~terms.ok THEN bad
            ELSE IF ~neg /\ ~NatLess(terms.d, TwoTo63) THEN bad
            ELSE [ok |-> TRUE, val |-> Duration(neg, terms.d)]
    IN  IF body = <<"0">> THEN [ok |-> TRUE, val |-> ZeroDuration]
        ELSE IF body = <<>> THEN bad
        ELSE Fitting(parseTerms(body, <<>>))

\* EffectiveDelay without the server's cap.
EffectiveDelayUncapped(delay, maxDelay) ==
    LET Given(requested) == IF ~requested.ok THEN ZeroDuration ELSE requested.val
    IN  Given(ParseDuration(delay))

\* The delay Write waits: none when the requested delay is absent or does not
\* parse, else the lesser of the requested delay and the maximum.
EffectiveDelay(delay, maxDelay) ==
    LET Capped(requested, maximum) ==
            IF ~requested.ok THEN ZeroDuration
            ELSE IF DurationLess(maximum, requested.val) THEN maximum
            ELSE requested.val
    IN  Capped(ParseDuration(delay), ParseDuration(maxDelay).val)

\* time.Sleep(d): the nanoseconds to wait, none for a d that is negative.
Sleep(d) == IF d.neg THEN <<>> ELSE d.ns

\* DelayElapsed that does not look at the time left.
DelayElapsedAlways(left) == TRUE

\* time.Sleep has returned.
DelayElapsed(left) == left = <<>>

LowerLetters == <<"a", "b", "c", "d", "e", "f", "g", "h", "i", "j", "k", "l", "m",
                  "n", "o", "p", "q", "r", "s", "t", "u", "v", "w", "x", "y", "z">>
UpperLetters == <<"A", "B", "C", "D", "E", "F", "G", "H", "I", "J", "K", "L", "M",
                  "N", "O", "P", "Q", "R", "S", "T", "U", "V", "W", "X", "Y", "Z">>

ToUpper(c) ==
    IF \E i \in 1..26 : LowerLetters[i] = c
    THEN UpperLetters[CHOOSE i \in 1..26 : LowerLetters[i] = c] ELSE c

ToLower(c) ==
    IF \E i \in 1..26 : UpperLetters[i] = c
    THEN LowerLetters[CHOOSE i \in 1..26 : UpperLetters[i] = c] ELSE c

\* http.Header.Set's key: textproto.CanonicalMIMEHeaderKey.  A key with a
\* byte that is not valid in a header field (a space, a byte that is not
\* ASCII) is returned as it is; in any other key the first letter and every
\* letter after a hyphen are in upper case, the others in lower case.
\* textproto's validHeaderFieldByte takes a letter, a digit or a mark of a
\* token ("x60" is the grave accent).
CanonicalKey(key) ==
    LET TokenMarks == {"!", "#", "$", "%", "&", "'", "*", "+", "-", ".", "^", "_",
                       "x60", "|", "~"}
        validHeaderFieldByte(c) ==
            \/ IsDigit(c)
            \/ \E i \in 1..26 : LowerLetters[i] = c \/ UpperLetters[i] = c
            \/ c \in TokenMarks
    IN  IF \E i \in 1..Len(key) : ~validHeaderFieldByte(key[i]) THEN key
        ELSE [i \in 1..Len(key) |->
                IF i = 1 \/ key[i - 1] = "-" THEN ToUpper(key[i]) ELSE ToLower(key[i])]

ContentTypeKey == <<"C", "o", "n", "t", "e", "n", "t", "-", "T", "y", "p", "e">>

\* mock.ContentType + "; charset=" + mock.Charset
ContentTypeValue(mock) ==
    mock.ContentType \o <<";", " ", "c", "h", "a", "r", "s", "e", "t", "=">>
    \o mock.Charset

\* Header().Set(key, value)
HeaderSet(headers, key, value) ==
    [k \in DOMAIN headers \cup {CanonicalKey(key)} |->
        IF k = CanonicalKey(key) THEN <<value>> ELSE headers[k]]

NoWrite == [mock |-> Nil, delay |-> <<>>, maxDelay |-> <<>>, todo |-> {},
            effective |-> ZeroDuration, left |-> <<>>, slept |-> <<>>]

NoResponse == [statusCode |-> 0, headers |-> <<>>, body |-> <<>>, written |-> FALSE]

\* Write(mock, delay) is called: the delay is resolved.
WriteCall(mock, delay, maxDelay) ==
    /\ wpc = "idle"
    /\ LET effective == EffectiveDelay(delay, maxDelay)
       IN  wloc' = [mock |-> mock, delay |-> delay, maxDelay |-> maxDelay,
                    todo |-> DOMAIN mock.Headers, effective |-> effective,
                    left |-> Sleep(effective), slept |-> <<>>]
    /\ out' = NoResponse
    /\ wpc' = "sleep"
    /\ UNCHANGED <<store, clock, pc, loc, ret, created, issued, counted, removed>>

\* time.Sleep: a second of the delay goes by, or what is left of it.
WriteSleep ==
    /\ wpc = "sleep"
    /\ ~DelayElapsed(wloc.left)
    /\ LET step == IF NatLess(Second, wloc.left) THEN Second ELSE wloc.left
       IN  wloc' = [wloc EXCEPT !.left = NatSub(@, step), !.slept = NatAdd(@, step)]
    /\ UNCHANGED <<store, clock, pc, loc, ret, created, issued, counted, removed, wpc, out>>

\* The status code is set to mock.Status.
WriteStatus ==
    /\ wpc = "sleep"
    /\ DelayElapsed(wloc.left)
    /\ out' = [out EXCEPT !.statusCode = wloc.mock.Status]
    /\ wpc' = "content_type"
    /\ UNCHANGED <<store, clock, pc, loc, ret, created, issued, counted, removed, wloc>>

\* The Content-Type header is set.
WriteContentType ==
    /\ wpc = "content_type"
    /\ out' = [out EXCEPT !.headers = HeaderSet(@, ContentTypeKey, ContentTypeValue(wloc.mock))]
    /\ wpc' = "headers"
    /\ UNCHANGED <<store, clock, pc, loc, ret, created, issued, counted, removed, wloc>>

\* One round of the loop over mock.Headers, in the order the map gives.
WriteHeader ==
    /\ wpc = "headers"
    /\ \E key \in wloc.todo :
         /\ out' = [out EXCEPT !.headers = HeaderSet(@, key, wloc.mock.Headers[key])]
         /\ wloc' = [wloc EXCEPT !.todo = @ \ {key}]
    /\ UNCHANGED <<store, clock, pc, loc, ret, created, issued, counted, removed, wpc>>

\* The body is written, and Write returns.
WriteBody ==
    /\ wpc = "headers"
    /\ wloc.todo = {}
    /\ out' = [out EXCEPT !.body = wloc.mock.Body, !.written = TRUE]
    /\ wpc' = "end"
    /\ UNCHANGED <<store, clock, pc, loc, ret, created, issued, counted, removed, wloc>>

\* The response is sent; the writer serves the next request.
WriteEnd ==
    /\ wpc = "end"
    /\ wpc' = "idle"
    /\ wloc' = NoWrite
    /\ out' = NoResponse
    /\ UNCHANGED <<store, clock, pc, loc, ret, created, issued, counted, removed>>

\* ------------------------------------------------------ the HTTP layer
\* The endpoints of the HTTP server, findMock (/v1/{uuid}), list (/v1/list)
\* and addNewMock (/v1/new), after their tests and the description of their
\* mapping of errors: their source is not among the sources at hand.  An
\* endpoint calls the facade, whose steps are the ones above, and then
\* writes its response.  The identifier of a path is a text.

\* UUID.String() of the UUID the model numbers u: a version 4 UUID.
UuidString(u) ==
    [i \in 1..36 |-> IF i \in {9, 14, 19, 24} THEN "-"
                     ELSE IF i = 15 THEN "4"
                     ELSE IF i = 20 THEN "8"
                     ELSE IF i = 36 THEN Digits[u + 1]
                     ELSE "0"]

\* uuid.Nil.String()
NilUuid == [i \in 1..36 |-> IF i \in {9, 14, 19, 24} THEN "-" ELSE "0"]

\* uuid.Parse(s), the UUID as UUID.String() writes it.  A text of 36 is a
\* UUID, one of 45 a UUID after urn:uuid:, one of 38 a UUID after any one
\* character, one of 32 the sixteen bytes without hyphens; any other length
\* is refused.  The bytes are read in their order up to the first that is
\* not two hexadecimal digits.  In a text of 32 that byte is stored as xtob
\* gives it before the error is returned: (b1 << 4) | b2 in eight bits, b1
\* and b2 being 255 for a character that is no hexadecimal digit, which is
\* ff when the second is none and f and the second digit when the first is
\* none.  UuidPairs is where the sixteen bytes are written in a text of 36,
\* EqualFold is strings.EqualFold on ASCII texts, IsHex a character xtob
\* takes for a hexadecimal digit.
Parse(s) ==
    LET n == Len(s)
        IsHex(c) == IsDigit(c) \/ \E i \in 1..6 : LowerLetters[i] = c \/ UpperLetters[i] = c
        UuidPairs == <<1, 3, 5, 7, 10, 12, 15, 17, 20, 22, 25, 27, 29, 31, 33, 35>>
        UrnPrefix == <<"u", "r", "n", ":", "u", "u", "i", "d", ":">>
        EqualFold(a, b) ==
            Len(a) = Len(b) /\ \A i \in 1..Len(a) : ToLower(a[i]) = ToLower(b[i])
        body == IF n = 45 THEN SubSeq(s, 10, 45)
                ELSE IF n = 38 THEN SubSeq(s, 2, 38)
                ELSE s
        at == IF n = 32 THEN [i \in 1..16 |-> 2 * i - 1] ELSE UuidPairs
        read == Cardinality({i \in 1..16 : \A j \in 1..i :
                                IsHex(body[at[j]]) /\ IsHex(body[at[j] + 1])})
        uuid == [i \in 1..36 |->
                    IF i \in {9, 14, 19, 24} THEN "-"
                    ELSE LET byte == CHOOSE b \in 1..16 : i - UuidPairs[b] \in {0, 1}
                         IN  IF byte <= read
                             THEN ToLower(body[at[byte] + (i - UuidPairs[byte])])
                             ELSE IF n = 32 /\ byte = read + 1
                             THEN IF i = UuidPairs[byte] + 1 /\ IsHex(body[at[byte] + 1])
                                  THEN ToLower(body[at[byte] + 1])
                                  ELSE "f"
                             ELSE "0"]
        Refused(err, val) == [ok |-> FALSE, val |-> val, err |-> err]
    IN  IF n \notin {32, 36, 38, 45}
        THEN Refused(<<"invalid UUID length", n>>, NilUuid)
        ELSE IF n = 45 /\ ~EqualFold(SubSeq(s, 1, 9), UrnPrefix)
        THEN Refused(<<"invalid urn prefix", SubSeq(s, 1, 9)>>, NilUuid)
        ELSE IF n # 32 /\ \E i \in {9, 14, 19, 24} : body[i] # "-"
        THEN Refused(<<"invalid UUID format">>, NilUuid)
        ELSE IF read < 16 THEN Refused(<<"invalid UUID format">>, uuid)
        ELSE [ok |-> TRUE, val |-> uuid, err |-> Nil]

\* StatusOfError answering 404 whatever failed.
StatusOfErrorNotFound(op) == 404

\* The status code of the response to a request whose facade call failed.
StatusOfError(op) == IF op = "Get" THEN 404 ELSE 409

\* The response to a request that failed: {"message": "<error>"}
ErrorResponse(code, err) ==
    [statusCode |-> code, headers |-> <<>>, body |-> <<"message", err>>,
     written |-> TRUE]

\* The response to a request that succeeded, but for findMock's.
OkResponse(member, value) ==
    [statusCode |-> 200, headers |-> <<>>, body |-> <<member, value>>,
     written |-> TRUE]

\* findMock: the identifier of the path is parsed; a UUID is given to Get,
\* mockId being the number the model gives the UUID parsed, -2 for a UUID no
\* New issues.  An identifier that is no UUID is answered 409 with the error
\* of the parser, as the test has it with a Mocker whose Get fails; whether
\* Get was called for it before, its error dropped, the test does not tell:
\* both are possible (Get of a text that is no UUID finds no file, the files
\* of the store being named by UUIDs).
findMock(h, path) ==
    /\ pc[h] = "idle"
    /\ wpc = "idle"
    /\ LET parsed == Parse(path)
           mockId == IF \E u \in UUIDS : UuidString(u) = parsed.val
                     THEN CHOOSE u \in UUIDS : UuidString(u) = parsed.val
                     ELSE -2
       IN  IF parsed.ok
           THEN GetLoad(h, mockId, path)
           ELSE /\ out' = ErrorResponse(409, parsed.err)
                /\ loc' = [loc EXCEPT ![h] = [NoLoc EXCEPT !.op = "findMock",
                                                            !.arg = path]]
                /\ \E consulted \in BOOLEAN :
                     ret' = [ret EXCEPT ![h] =
                               IF consulted THEN [err |-> <<"load">>, val |-> Nil]
                               ELSE NoRet]
                /\ pc' = [pc EXCEPT ![h] = "responded"]
                /\ UNCHANGED <<store, clock, created, issued, counted, removed,
                               wpc, wloc>>

\* findMock after Get: the error is answered, or the record is given to the
\* response writer with the delay of the request.
findMockWrite(h, delay, maxDelay) ==
    /\ pc[h] = "done"
    /\ loc[h].op = "Get"
    /\ IF ret[h].err # Nil
       THEN /\ out' = ErrorResponse(StatusOfError("Get"), ret[h].err)
            /\ pc' = [pc EXCEPT ![h] = "responded"]
            /\ UNCHANGED <<wpc, wloc>>
       ELSE /\ LET effective == EffectiveDelay(delay, maxDelay)
               IN  wloc' = [mock |-> ret[h].val, delay |-> delay, maxDelay |-> maxDelay,
                            todo |-> DOMAIN ret[h].val.Headers, effective |-> effective,
                            left |-> Sleep(effective), slept |-> <<>>]
            /\ out' = NoResponse
            /\ wpc' = "sleep"
            /\ pc' = [pc EXCEPT ![h] = "writing"]
    /\ UNCHANGED <<store, clock, loc, ret, created, issued, counted, removed>>

\* list: List is called.
list(h, readable) == ListReadDir(h, readable)

\* list after List: the error is answered, or the summaries.
listWrite(h) ==
    /\ pc[h] = "done"
    /\ loc[h].op = "List"
    /\ out' = IF ret[h].err # Nil
              THEN ErrorResponse(StatusOfError("List"), ret[h].err)
              ELSE OkResponse("list", ret[h].val)
    /\ pc' = [pc EXCEPT ![h] = "responded"]
    /\ UNCHANGED <<store, clock, loc, ret, created, issued, counted, removed,
                   wpc, wloc>>

\* addNewMock: New is called with the parameters and the body of the request.
addNewMock(h, pool, reqParams, reqBody) ==
    NewCall(h, pool, 0, reqParams, reqBody)

\* addNewMock after New: the error is answered, or the new UUID.
addNewMockWrite(h) ==
    /\ pc[h] = "done"
    /\ loc[h].op = "New"
    /\ out' = IF ret[h].err # Nil
              THEN ErrorResponse(StatusOfError("New"), ret[h].err)
              ELSE OkResponse("uuid", ret[h].val)
    /\ pc' = [pc EXCEPT ![h] = "responded"]
    /\ UNCHANGED <<store, clock, loc, ret, created, issued, counted, removed,
                   wpc, wloc>>

\* The response is sent, or the handler has panicked and net/http has taken
\* the panic; the handler takes the next request.
Respond(h) ==
    /\ \/ pc[h] = "responded"
       \/ pc[h] = "writing" /\ wpc = "end"
       \/ pc[h] = "panicked"
    /\ pc' = [pc EXCEPT ![h] = "idle"]
    /\ loc' = [loc EXCEPT ![h] = NoLoc]
    /\ ret' = [ret EXCEPT ![h] = NoRet]
    /\ wpc' = "idle"
    /\ wloc' = NoWrite
    /\ out' = NoResponse
    /\ UNCHANGED <<store, clock, created, issued, counted, removed>>

InitWith(handlers) ==
    /\ store = <<>>
    /\ clock = 59
    /\ pc = [h \in handlers |-> "idle"]
    /\ loc = [h \in handlers |-> NoLoc]
    /\ ret = [h \in handlers |-> NoRet]
    /\ created = <<>>
    /\ issued = {}
    /\ counted = 0
    /\ removed = [h \in handlers |-> {}]
    /\ wpc = "idle"
    /\ wloc = NoWrite
    /\ out = NoResponse

\* ------------------------------------------------------- request inputs
Str200 == <<"2", "0", "0">>
TextPlain == <<"t", "e", "x", "t", "/", "p", "l", "a", "i", "n">>
Utf8 == <<"U", "T", "F", "-", "8">>
XLanguage == <<"x", "-", "l", "a", "n", "g", "u", "a", "g", "e">>
Golang == <<"g", "o", "l", "a", "n", "g">>

\* A parameter the request does not have, and one it has with its values,
\* which may be none.
Absent == [present |-> FALSE, values |-> <<>>]
Present(values) == [present |-> TRUE, values |-> values]

Params(status, contentType, charset, header) ==
    LET names == (IF status.present THEN {ParamStatus} ELSE {})
                 \cup (IF contentType.present THEN {ParamContentType} ELSE {})
                 \cup (IF charset.present THEN {ParamCharset} ELSE {})
                 \cup (IF header.present THEN {XLanguage} ELSE {})
    IN  [n \in names |->
            IF n = ParamStatus THEN status.values
            ELSE IF n = ParamContentType THEN contentType.values
            ELSE IF n = ParamCharset THEN charset.values
            ELSE header.values]

\* The request of the tests.
BasicParams ==
    {Params(Present(<<Str200>>), Present(<<TextPlain>>), Present(<<Utf8>>),
            Present(<<Golang>>))}

BasicBodies == {<<72, 105>>}

\* ---------------------------------------------------------- environment
\* A file of the working directory that no New wrote: a three-character
\* name without extension.
ForeignName == [stem |-> -1, ext |-> <<>>]

\* Something outside the program garbles a record's file.
EnvCorrupt(mockId) ==
    /\ \A h \in Handlers : pc[h] = "idle"
    /\ FilePath(mockId) \in DOMAIN store
    /\ store[FilePath(mockId)] # Junk
    /\ store' = [store EXCEPT ![FilePath(mockId)] = Junk]
    /\ UNCHANGED <<clock, pc, loc, ret, created, issued, counted, removed, wpc, wloc, out>>

\* Something outside the program drops a file of its own in the directory.
EnvForeign ==
    /\ \A h \in Handlers : pc[h] = "idle"
    /\ ForeignName \notin DOMAIN store
    /\ store' = Write(store, ForeignName, Junk)
    /\ UNCHANGED <<clock, pc, loc, ret, created, issued, counted, removed, wpc, wloc, out>>

\* ------------------------------------------------------- specifications
\* Spec: two handlers, the storage always readable and writable, os.Remove
\* free to be refused.
Init == InitWith({1, 2})

Next ==
    \E h \in Handlers :
         \/ \E dt \in 0..1, p \in BasicParams, b \in BasicBodies :
              NewCall(h, 1..FewIds, dt, p, b)
         \/ NewWrite(h, TRUE)
         \/ NewFill(h, TRUE)
         \/ \E id \in 1..FewIds : GetLoad(h, id, Nil)
         \/ GetUnmarshal(h)
         \/ ListReadDir(h, TRUE)
         \/ ListGet(h)
         \/ ListReturn(h)
         \/ \E limit \in 0..MaxLimit : CleanCall(h, limit, TRUE)
         \/ CleanSelect(h)
         \/ \E ok \in BOOLEAN : CleanRemove(h, ok)
         \/ Return(h)

Spec == Init /\ [][Next]_vars

\* SpecSeq: one handler, one request after the other, and a storage that
\* never fails.
InitSeq == InitWith({1})

NextSeq ==
    \E h \in Handlers :
         \/ \E dt \in 0..1, p \in BasicParams, b \in BasicBodies :
              NewCall(h, UUIDS, dt, p, b)
         \/ NewWrite(h, TRUE)
         \/ NewFill(h, TRUE)
         \/ \E id \in UUIDS : GetLoad(h, id, Nil)
         \/ GetUnmarshal(h)
         \/ ListReadDir(h, TRUE)
         \/ ListGet(h)
         \/ ListReturn(h)
         \/ \E limit \in -1..MaxLimit : CleanCall(h, limit, TRUE)
         \/ CleanSelect(h)
         \/ CleanRemove(h, TRUE)
         \/ Return(h)

SpecSeq == InitSeq /\ [][NextSeq]_vars

\* SpecCodec: one handler that creates records from requests of every shape
\* and reads them back.
NotACode == <<"9", "9", "9">>
NotANumber == <<"x", "x">>
Str404 == <<"4", "0", "4">>
NotAType == <<"t", "e", "x", "t">>
NotACharset == <<"U", "T", "F">>

\* A decimal of 20 digits: no int.
NotAnInt == [i \in 1..20 |-> "9"]

StatusInputs ==
    {Absent, Present(<<>>), Present(<<Str200>>), Present(<<Str200, NotACode>>),
     Present(<<Str404>>), Present(<<NotACode>>), Present(<<NotANumber>>),
     Present(<<NotAnInt>>)}
ContentTypeInputs == {Absent, Present(<<TextPlain>>), Present(<<NotAType>>)}
CharsetInputs == {Absent, Present(<<>>), Present(<<Utf8>>), Present(<<NotACharset>>)}
HeaderInputs ==
    {Absent, Present(<<>>), Present(<<Golang>>), Present(<<<<"g", "xFF">>>>)}

RichParams ==
    {Params(s, ct, cs, Present(<<Golang>>)) :
        s \in StatusInputs, ct \in ContentTypeInputs, cs \in CharsetInputs}
    \cup {Params(Present(<<Str200>>), Present(<<TextPlain>>), Present(<<Utf8>>), hd) :
             hd \in HeaderInputs}

RichBodies == {<<>>, <<255>>, <<72, 105>>, <<0, 255, 16, 77>>}

InitCodec == InitWith({1})

NextCodec ==
    \E h \in Handlers :
         \/ \E p \in RichParams, b \in RichBodies :
              NewCall(h, 1..FewIds, 0, p, b)
         \/ NewWrite(h, TRUE)
         \/ NewFill(h, TRUE)
         \/ \E id \in 1..FewIds : GetLoad(h, id, Nil)
         \/ GetUnmarshal(h)
         \/ Return(h)

SpecCodec == InitCodec /\ [][NextCodec]_vars

\* SpecEnv: one handler on a storage that may refuse to be read, written or
\* deleted from, in a directory other programs write to between requests.
InitEnv == InitWith({1})

NextEnv ==
    \/ \E id \in UUIDS : EnvCorrupt(id)
    \/ EnvForeign
    \/ \E h \in Handlers :
         \/ \E dt \in 0..1, p \in BasicParams, b \in BasicBodies :
              NewCall(h, UUIDS, dt, p, b)
         \/ \E ok \in BOOLEAN : NewWrite(h, ok)
         \/ \E ok \in BOOLEAN : NewFill(h, ok)
         \/ \E id \in UUIDS : GetLoad(h, id, Nil)
         \/ GetUnmarshal(h)
         \/ \E ok \in BOOLEAN : ListReadDir(h, ok)
         \/ ListGet(h)
         \/ ListReturn(h)
         \/ \E limit \in 0..MaxLimit, ok \in BOOLEAN : CleanCall(h, limit, ok)
         \/ CleanSelect(h)
         \/ \E ok \in BOOLEAN : CleanRemove(h, ok)
         \/ Return(h)

SpecEnv == InitEnv /\ [][NextEnv]_vars

\* SpecRoute: one handler that creates records from requests whose
\* parameters have every kind of name and any number of values.
XLanguageUpper == <<"X", "-", "L", "a", "n", "g", "u", "a", "g", "e">>
ContentTypeLower == <<"c", "o", "n", "t", "e", "n", "t", "-", "t", "y", "p", "e">>
TextHtml == <<"t", "e", "x", "t", "/", "h", "t", "m", "l">>

HeaderNames == {XLanguage, XLanguageUpper, ContentTypeLower}
HeaderValues == {<<>>, <<Golang>>, <<TextHtml, Golang>>}

TypedParams ==
    {Params(Present(<<Str200>>), Present(<<TextPlain>>), Present(<<Utf8>>), Absent),
     Params(Absent, Present(<<TextPlain>>), Present(<<Utf8>>), Absent),
     Params(Present(<<>>), Present(<<TextPlain>>), Present(<<Utf8>>), Absent),
     Params(Present(<<NotAnInt>>), Present(<<TextPlain>>), Present(<<Utf8>>), Absent),
     Params(Present(<<NotANumber, Str200>>), Present(<<TextPlain, NotAType>>),
            Present(<<>>), Absent)}

Merge(f, g) ==
    [n \in DOMAIN f \cup DOMAIN g |-> IF n \in DOMAIN f THEN f[n] ELSE g[n]]

RouteParams ==
    {Merge(typed, others) :
        typed \in TypedParams,
        others \in UNION {[names -> HeaderValues] : names \in SUBSET HeaderNames}}

InitRoute == InitWith({1})

NextRoute ==
    \E h \in Handlers :
         \/ \E p \in RouteParams, b \in BasicBodies :
              NewCall(h, 1..FewIds, 0, p, b)
         \/ NewWrite(h, TRUE)
         \/ NewFill(h, TRUE)
         \/ \E id \in 1..FewIds : GetLoad(h, id, Nil)
         \/ GetUnmarshal(h)
         \/ Return(h)

SpecRoute == InitRoute /\ [][NextRoute]_vars

\* SpecHttp: one handler serving the requests of the three endpoints, on a
\* storage that may refuse to be read or written.
WrongUuid == <<"w", "r", "o", "n", "g", "-", "u", "u", "i", "d">>

\* The identifiers of the requests: the UUIDs New may issue and one it does
\* not; the first of them after urn:uuid:, in braces, and without hyphens;
\* /v1/wrong-uuid; a UUID but for its last character; a text of 32 whose
\* first two characters are no hexadecimal digits; and a text of x of the
\* length of a UUID and of a UUID after urn:uuid:.
PathIds ==
    {UuidString(u) : u \in 1..FewIds}
    \cup {[i \in 1..36 |-> IF i \in {9, 14, 19, 24} THEN "-" ELSE "f"],
          <<"u", "r", "n", ":", "u", "u", "i", "d", ":">> \o UuidString(1),
          <<"{">> \o UuidString(1) \o <<"}">>,
          [i \in 1..32 |-> IF i = 13 THEN "4" ELSE IF i = 17 THEN "8"
                           ELSE IF i = 32 THEN "1" ELSE "0"],
          WrongUuid,
          [i \in 1..36 |-> IF i = 36 THEN "g" ELSE UuidString(1)[i]],
          [i \in 1..32 |-> IF i <= 2 THEN "z" ELSE "0"],
          [i \in 1..36 |-> "x"], [i \in 1..45 |-> "x"]}

HttpParams ==
    {Params(Present(<<Str200>>), Present(<<TextPlain>>), Present(<<Utf8>>),
            Present(<<Golang>>)),
     Params(Present(<<NotANumber>>), Present(<<TextPlain>>), Present(<<Utf8>>), Absent),
     Params(Present(<<Str404>>), Present(<<TextPlain>>), Present(<<NotACharset>>),
            Absent)}

InitHttp == InitWith({1})

NextHttp ==
    \/ WriteSleep
    \/ WriteStatus
    \/ WriteContentType
    \/ WriteHeader
    \/ WriteBody
    \/ \E h \in Handlers :
         \/ \E path \in PathIds : findMock(h, path)
         \/ GetUnmarshal(h)
         \/ \E delay \in {<<>>, <<"3", "s">>} :
              findMockWrite(h, delay, <<"1", "0", "0", "0", "m", "s">>)
         \/ \E ok \in BOOLEAN : list(h, ok)
         \/ ListGet(h)
         \/ ListReturn(h)
         \/ listWrite(h)
         \/ \E p \in HttpParams, b \in BasicBodies :
              addNewMock(h, 1..FewIds, p, b)
         \/ \E ok \in BOOLEAN : NewWrite(h, ok)
         \/ \E ok \in BOOLEAN : NewFill(h, ok)
         \/ addNewMockWrite(h)
         \/ Respond(h)

SpecHttp == InitHttp /\ [][NextHttp]_vars

\* SpecRace: two handlers that create records at different seconds and
\* clean with one and the same limit, os.Remove free to be refused.
DistinctTime(elapsed) ==
    /\ \A u \in DOMAIN created : created[u].CreatedAt # Format(clock + elapsed)
    /\ \A h \in Handlers :
          pc[h] \in {"new_write", "new_fill"} =>
              loc[h].arg.CreatedAt # Format(clock + elapsed)

InitRace == InitWith({1, 2})

NextRace ==
    \E h \in Handlers :
         \/ \E dt \in 0..1, p \in BasicParams, b \in BasicBodies :
              DistinctTime(dt) /\ NewCall(h, UUIDS, dt, p, b)
         \/ NewWrite(h, TRUE)
         \/ NewFill(h, TRUE)
         \/ CleanCall(h, RaceLimit, TRUE)
         \/ ListGet(h)
         \/ CleanSelect(h)
         \/ \E ok \in BOOLEAN : CleanRemove(h, ok)
         \/ Return(h)

SpecRace == InitRace /\ [][NextRace]_vars

\* SpecWriter: the response writer alone, rendering the records of the tests
\* under every requested and maximum delay.
TestMock ==
    [UUID |-> 1, CreatedAt |-> Format(59), Status |-> 200,
     ContentType |-> TextPlain, Charset |-> Utf8,
     Headers |-> [k \in {XLanguage} |-> Golang], Body |-> <<72, 105>>]

\* Records as New stores them for requests with a parameter content-type, or
\* with the parameters x-language and X-Language.
CollidingMocks ==
    {[TestMock EXCEPT !.Headers = [k \in {ContentTypeLower} |-> TextHtml]],
     [TestMock EXCEPT !.Headers = [k \in {XLanguage, XLanguageUpper} |->
                                      IF k = XLanguage THEN Golang ELSE TextHtml]]}

\* The record of TestWrite, records with other fields, a record whose header
\* keys have a space (x language and X language), and the colliding ones.
WriterMocks ==
    LET XSpaceLanguage == <<"x", " ", "l", "a", "n", "g", "u", "a", "g", "e">>
        XSpaceLanguageUpper == <<"X", " ", "l", "a", "n", "g", "u", "a", "g", "e">>
    IN
    {TestMock,
     [TestMock EXCEPT !.Status = 404, !.Headers = <<>>, !.Body = <<>>,
                      !.Charset = <<"U", "T", "F", "-", "1", "6">>],
     [TestMock EXCEPT !.Headers = [k \in {XLanguage, ParamCharset} |->
                                      IF k = XLanguage THEN Golang ELSE Utf8]],
     [TestMock EXCEPT !.Headers = [k \in {XSpaceLanguage, XSpaceLanguageUpper} |->
                                      IF k = XSpaceLanguage THEN Golang ELSE TextHtml]]}
    \cup CollidingMocks

DelayInputs ==
    {<<>>, <<"x", "x">>, <<"1", "x">>, <<"0">>, <<"0", "0">>, <<"1">>, <<"0", "s">>,
     <<"1", "s">>, <<"3", "s">>, <<"3", "0", "s">>, <<"1", "0", "0", "0", "m", "s">>,
     <<"2", "5", "0", "0", "m", "s">>, <<"-", "1", "s">>, <<"1", "m">>,
     <<"1", ".", "5", "s">>, <<".", "5", "s">>, <<"1", "s", "5", "0", "0", "m", "s">>,
     <<"1", "5", "0", "0", "u", "s">>, <<"1", "n", "s">>, <<".", "s">>,
     [i \in 1..21 |-> IF i = 21 THEN "h" ELSE "9"]}

MaxDelayInputs == {<<"1", "0", "0", "0", "m", "s">>, <<"2", "s">>, <<"6", "0", "s">>}

InitWriter == InitWith({})

NextWriter ==
    \/ \E mock \in WriterMocks, delay \in DelayInputs, maxDelay \in MaxDelayInputs :
         WriteCall(mock, delay, maxDelay)
    \/ WriteSleep
    \/ WriteStatus
    \/ WriteContentType
    \/ WriteHeader
    \/ WriteBody
    \/ WriteEnd

SpecWriter == InitWriter /\ [][NextWriter]_vars

\* ================================================================ claims
Done(h, op) == pc[h] = "done" /\ loc[h].op = op

InVocabularies(mock) ==
    /\ mock.Status \in HTTP_CODES
    /\ mock.ContentType \in CONTENT_TYPES
    /\ mock.Charset \in CHARSET

\* C1: New of a candidate whose status, contentType and charset are in their
\* vocabularies succeeds and returns its identifier, and a Get of that
\* identifier, the record still stored, returns a record that Equals the
\* candidate (status, contentType, charset, headers, body).
C1_NewThenGetEqualsCandidate ==
    \A h \in Handlers :
        /\ Done(h, "New") /\ InVocabularies(loc[h].arg) =>
              /\ ret[h] = [err |-> Nil, val |-> loc[h].arg.UUID]
              /\ FilePath(loc[h].arg.UUID) \in DOMAIN store
        /\ Done(h, "Get") /\ loc[h].id \in DOMAIN created
                          /\ FilePath(loc[h].id) \in DOMAIN store =>
              /\ ret[h].err = Nil
              /\ Equals(ret[h].val, created[loc[h].id])

\* C2: a New whose candidate has its status, contentType or charset outside
\* the vocabulary returns the error of the first invalid field in the order
\* status, contentType, charset, with the offending value, returns no
\* identifier and leaves the store as it was.
C2_InvalidCandidate(h) ==
    /\ pc[h] = "idle"
    /\ pc'[h] = "done"
    /\ loc'[h].op = "New"
    /\ ~InVocabularies(loc'[h].arg)

C2_FirstInvalidFieldReported ==
    [][\A h \in Handlers : C2_InvalidCandidate(h) =>
          LET mock == loc'[h].arg
              err == ret'[h].err
          IN  /\ ret'[h].val = Nil
              /\ store' = store
              /\ created' = created
              /\ Len(err) = 2
              /\ mock.Status \notin HTTP_CODES =>
                    err = <<"status does not exist", mock.Status>>
              /\ mock.Status \in HTTP_CODES /\ mock.ContentType \notin CONTENT_TYPES =>
                    err = <<"content type does not exist", mock.ContentType>>
              /\ mock.Status \in HTTP_CODES /\ mock.ContentType \in CONTENT_TYPES =>
                    err = <<"charset does not exist", mock.Charset>>]_vars

\* C2's case: a New refused for its status although its content type and
\* its charset are invalid too, in a store that holds a record.
C2_Witness ==
    \E h \in Handlers :
        /\ Done(h, "New")
        /\ ret[h].err = <<"status does not exist", -1>>
        /\ loc[h].arg.ContentType \notin CONTENT_TYPES
        /\ loc[h].arg.Charset \notin CHARSET
        /\ DOMAIN store # {}

Stored == {name.stem : name \in DOMAIN store}

CreatedAtOf(name) == created[name.stem].CreatedAt

Summary(mock) ==
    [UUID |-> mock.UUID, CreatedAt |-> mock.CreatedAt, Status |-> mock.Status,
     ContentType |-> mock.ContentType]

NewestFirst(values) ==
    \A i, j \in 1..Len(values) :
        i < j => ~StrLess(values[i].CreatedAt, values[j].CreatedAt)

\* C3: with no other operation running and no deletion refused, Clean(limit)
\* on a store of count records removes nothing when limit < 1 or
\* limit >= count, and otherwise removes count - limit records, none of them
\* created later than a record it keeps, and leaves limit records; it returns
\* the number of records it removed, and a List of the store as Clean left it
\* returns exactly the records kept.
C3_CleanKeepsTheMostRecent ==
    \A h \in Handlers :
        /\ Done(h, "Clean") =>
              LET count == Cardinality(DOMAIN store \cup removed[h])
                  limit == loc[h].limit
              IN  /\ ret[h] = [err |-> Nil, val |-> Cardinality(removed[h])]
                  /\ removed[h] \cap DOMAIN store = {}
                  /\ limit < 1 \/ limit >= count => removed[h] = {}
                  /\ limit >= 1 /\ limit < count =>
                        /\ Cardinality(removed[h]) = count - limit
                        /\ Cardinality(DOMAIN store) = limit
                        /\ \A r \in removed[h], k \in DOMAIN store :
                              ~StrLess(CreatedAtOf(k), CreatedAtOf(r))
        /\ Done(h, "List") =>
              /\ ret[h].err = Nil
              /\ Len(ret[h].val) = Cardinality(DOMAIN store)
              /\ {ret[h].val[i].UUID : i \in 1..Len(ret[h].val)} = Stored

\* C3's case: Clean(1) on three records of three different seconds has
\* removed the two oldest.
C3_Witness ==
    \E h \in Handlers :
        /\ Done(h, "Clean")
        /\ loc[h].limit = 1
        /\ Cardinality(removed[h]) = 2
        /\ \A r \in removed[h], k \in DOMAIN store : StrLess(CreatedAtOf(r), CreatedAtOf(k))
        /\ \E r1, r2 \in removed[h] : StrLess(CreatedAtOf(r1), CreatedAtOf(r2))

\* C4: when N records were created and none was removed, List returns no
\* error and exactly N summaries, the summary of every created record among
\* them, and no summary comes before one with a later createdAt; with N = 0
\* the result is the empty sequence.
C4_ListAllNewestFirst ==
    \A h \in Handlers :
        Done(h, "List") /\ Stored = DOMAIN created =>
            /\ ret[h].err = Nil
            /\ Len(ret[h].val) = Cardinality(DOMAIN created)
            /\ \A u \in DOMAIN created :
                  \E i \in 1..Len(ret[h].val) : ret[h].val[i] = Summary(created[u])
            /\ NewestFirst(ret[h].val)

\* C4's case: List has returned three summaries of three different seconds.
C4_Witness ==
    \E h \in Handlers :
        /\ Done(h, "List")
        /\ Stored = DOMAIN created
        /\ Len(ret[h].val) = 3
        /\ StrLess(ret[h].val[3].CreatedAt, ret[h].val[2].CreatedAt)
        /\ StrLess(ret[h].val[2].CreatedAt, ret[h].val[1].CreatedAt)

\* What a Get returns of the record New wrote under uuid.
Persisted(uuid) == UnmarshalMockedRequest(Marshal(created[uuid])).val

\* The records whose file is a readable JSON document.
Readable ==
    {name.stem : name \in {n \in DOMAIN store : n.ext = JsonExt /\ store[n] # Junk}}

\* C5: List is all or nothing: when a file of the store cannot be loaded or
\* deserialized into a summary, be it the garbled file of a record or a file
\* that is no record, List returns an error and no values.
C5_ListAllOrNothing ==
    \A h \in Handlers :
        Done(h, "List") /\ (\E name \in DOMAIN store :
                               name.ext # JsonExt \/ store[name] = Junk)
            => ret[h].err # Nil /\ ret[h].val = Nil

\* The file a New has created and not yet filled.
BeingWritten(name) ==
    \E h \in Handlers : pc[h] = "new_fill" /\ FilePath(loc[h].arg.UUID) = name

\* C8: a file of the store is the one a New is writing or holds, under the
\* name of its record's id, what New wrote when it created the record; New
\* creates its file under a name the store does not hold; a record written
\* under an id never changes; and a Get that succeeds returns the fields
\* written at creation.
C8_Stored ==
    /\ \A name \in DOMAIN store :
          \/ store[name] = Junk /\ BeingWritten(name)
          \/ /\ name.stem \in DOMAIN created
             /\ store[name] = Marshal(created[name.stem])
             /\ store[name].UUID = name.stem
    /\ \A h \in Handlers :
          Done(h, "Get") /\ ret[h].err = Nil =>
              /\ loc[h].id \in DOMAIN created
              /\ ret[h].val = Persisted(loc[h].id)
              /\ ret[h].val.CreatedAt = created[loc[h].id].CreatedAt

C8_Step ==
    /\ \A u \in DOMAIN created : u \in DOMAIN created' /\ created'[u] = created[u]
    /\ \A name \in DOMAIN store \cap DOMAIN store' :
          store[name] # Junk => store'[name] = store[name]
    /\ \A h \in Handlers :
          /\ pc[h] = "new_write" /\ pc'[h] = "new_fill" =>
                /\ FilePath(loc[h].arg.UUID) \notin DOMAIN store
                /\ FilePath(loc[h].arg.UUID) \in DOMAIN store'
                /\ loc[h].arg.UUID \notin DOMAIN created
          /\ pc[h] = "new_fill" /\ pc'[h] = "done" /\ ret'[h].err = Nil =>
                /\ ret'[h].val = loc[h].arg.UUID
                /\ store'[FilePath(ret'[h].val)] = Marshal(loc[h].arg)

C8_RecordsImmutable == [][C8_Stored /\ C8_Step]_vars /\ []C8_Stored

\* C8's case: a Get has returned a record after a second record was created
\* and a Clean removed a record.
C8_Witness ==
    \E h \in Handlers :
        /\ Done(h, "Get")
        /\ ret[h].err = Nil
        /\ Cardinality(DOMAIN created) = 2
        /\ Cardinality(DOMAIN store) = 1

\* C9: a Get of a record, called once New has written it, returns the record
\* as New wrote it or the error of a file that is not there, whatever a
\* concurrent Clean does to the file, and a Clean returns no error.
C9_GetSeesRecordOrNotFound ==
    \A h \in Handlers :
        /\ Done(h, "Get") /\ loc[h].known =>
              \/ ret[h] = [err |-> <<"load">>, val |-> Nil]
              \/ ret[h] = [err |-> Nil, val |-> Persisted(loc[h].id)]
        /\ Done(h, "Clean") => ret[h].err = Nil

\* C9's case: a Get has returned the whole record although a Clean that is
\* still running removed its file after the Get loaded it.
C9_Witness ==
    \E g, c \in Handlers :
        /\ Done(g, "Get")
        /\ loc[g].known
        /\ ret[g] = [err |-> Nil, val |-> Persisted(loc[g].id)]
        /\ loc[c].op = "Clean"
        /\ FilePath(loc[g].id) \in removed[c]

\* The records Clean selected for deletion, as file names: the entries of its
\* slice but for those that are no record's summary (the zero value List may
\* hold for a file it could not read, which names no file of the store).
Selected(h) ==
    LET todo == ToDelete(loc[h].values, loc[h].limit)
    IN  {FilePath(todo[i].UUID) : i \in {j \in 1..Len(todo) : todo[j].UUID # EmptyId}}

\* C10: a Clean that got its list returns no error; it has gone through its
\* whole selection whatever deletions failed; the number it returns is the
\* number of files it removed; and the files it failed to remove are still
\* in the store.
C10_CleanIsBestEffort ==
    \A h \in Handlers :
        Done(h, "Clean") /\ ret[h].err # <<"readdir">> =>
            /\ ret[h].err = Nil
            /\ loc[h].todo = <<>>
            /\ removed[h] \subseteq Selected(h)
            /\ removed[h] \cap DOMAIN store = {}
            /\ ret[h].val = Cardinality(removed[h])
            /\ Selected(h) \ removed[h] \subseteq DOMAIN store

\* C10's case: of the two records Clean selected, the first could not be
\* removed and the second was, and Clean has returned 1.
C10_Witness ==
    \E h \in Handlers :
        /\ Done(h, "Clean")
        /\ LET todo == ToDelete(loc[h].values, loc[h].limit)
           IN  /\ Len(todo) = 2
               /\ FilePath(todo[1].UUID) \in DOMAIN store
               /\ FilePath(todo[2].UUID) \in removed[h]
        /\ ret[h] = [err |-> Nil, val |-> 1]

\* The response has been started: something of it was written.
Started == out.statusCode # 0 \/ DOMAIN out.headers # {} \/ out.written

\* The delays of the writer's requests and maxima as time.ParseDuration is
\* documented to read them, written out by hand in nanoseconds (limbs of
\* four decimal digits): "1m" is 60 s, "1.5s", ".5s", "1s500ms" and "1500us"
\* are read in full, and "", "xx", "1x", "00", "1", ".s" and a delay beyond
\* an int64 of nanoseconds are no durations.  "-1s" is a duration below every
\* maximum, and waiting it is waiting nothing.
ExpectedDelays ==
    {[delay |-> <<>>, parses |-> FALSE, wait |-> <<>>],
     [delay |-> <<"x", "x">>, parses |-> FALSE, wait |-> <<>>],
     [delay |-> <<"1", "x">>, parses |-> FALSE, wait |-> <<>>],
     [delay |-> <<"0">>, parses |-> TRUE, wait |-> <<>>],
     [delay |-> <<"0", "0">>, parses |-> FALSE, wait |-> <<>>],
     [delay |-> <<"1">>, parses |-> FALSE, wait |-> <<>>],
     [delay |-> <<"0", "s">>, parses |-> TRUE, wait |-> <<>>],
     [delay |-> <<"1", "s">>, parses |-> TRUE, wait |-> <<10, 0, 0>>],
     [delay |-> <<"3", "s">>, parses |-> TRUE, wait |-> <<30, 0, 0>>],
     [delay |-> <<"3", "0", "s">>, parses |-> TRUE, wait |-> <<300, 0, 0>>],
     [delay |-> <<"1", "0", "0", "0", "m", "s">>, parses |-> TRUE, wait |-> <<10, 0, 0>>],
     [delay |-> <<"2", "5", "0", "0", "m", "s">>, parses |-> TRUE, wait |-> <<25, 0, 0>>],
     [delay |-> <<"-", "1", "s">>, parses |-> TRUE, wait |-> <<>>],
     [delay |-> <<"1", "m">>, parses |-> TRUE, wait |-> <<600, 0, 0>>],
     [delay |-> <<"1", ".", "5", "s">>, parses |-> TRUE, wait |-> <<15, 0, 0>>],
     [delay |-> <<".", "5", "s">>, parses |-> TRUE, wait |-> <<5, 0, 0>>],
     [delay |-> <<"1", "s", "5", "0", "0", "m", "s">>, parses |-> TRUE, wait |-> <<15, 0, 0>>],
     [delay |-> <<"1", "5", "0", "0", "u", "s">>, parses |-> TRUE, wait |-> <<150, 0>>],
     [delay |-> <<"1", "n", "s">>, parses |-> TRUE, wait |-> <<1>>],
     [delay |-> <<".", "s">>, parses |-> FALSE, wait |-> <<>>],
     [delay |-> [i \in 1..21 |-> IF i = 21 THEN "h" ELSE "9"], parses |-> FALSE,
      wait |-> <<>>],
     [delay |-> <<"2", "s">>, parses |-> TRUE, wait |-> <<20, 0, 0>>],
     [delay |-> <<"6", "0", "s">>, parses |-> TRUE, wait |-> <<600, 0, 0>>]}

\* The nanoseconds of a delay of the table.
Expected(delay) == CHOOSE row \in ExpectedDelays : row.delay = delay

\* C6: the delay the writer has waited when it starts to write is 0 when the
\* requested delay is absent or is no duration, and otherwise the lesser of
\* the requested delay and the server's maximum; it never exceeds the
\* maximum.  The delays and the maxima are the ones of the table.
C6_EffectiveDelayCapped ==
    wpc \notin {"idle", "sleep"} =>
        LET requested == Expected(wloc.delay)
            maximum == Expected(wloc.maxDelay).wait
        IN  /\ \E row \in ExpectedDelays : row.delay = wloc.delay
            /\ \E row \in ExpectedDelays : row.delay = wloc.maxDelay /\ row.parses
            /\ wloc.delay = <<>> \/ ~requested.parses => wloc.slept = <<>>
            /\ wloc.delay # <<>> /\ requested.parses =>
                  wloc.slept = IF NatLess(maximum, requested.wait) THEN maximum
                               ELSE requested.wait
            /\ ~NatLess(maximum, wloc.slept)

\* C6's case: a requested delay of 30s under a maximum of 1000ms, as in the
\* writer's test: the writer has written its response after 1000 ms.
C6_Witness ==
    /\ wpc = "end"
    /\ wloc.delay = <<"3", "0", "s">>
    /\ wloc.maxDelay = <<"1", "0", "0", "0", "m", "s">>
    /\ wloc.slept = <<10, 0, 0>>

\* C7: whenever the status code, a header or the body is written, the
\* effective delay has elapsed in full: nothing of it is left to wait, and
\* the writer has slept at least that long.
C7_NothingWrittenBeforeDelay ==
    Started =>
        /\ wloc.left = <<>>
        /\ ~DurationLess(Duration(FALSE, wloc.slept), wloc.effective)

\* C7's case: the whole response is written after a requested delay of
\* 2500 ms, capped to 2 s, that took two rounds of sleep.
C7_Witness ==
    /\ Started
    /\ out.written
    /\ out.statusCode = 200
    /\ wloc.delay = <<"2", "5", "0", "0", "m", "s">>
    /\ wloc.slept = NatMul(Second, 2)

\* The parameter names New routes to the typed fields.
Reserved == {ParamStatus, ParamContentType, ParamCharset}

\* C11: in every record New has accepted, no two keys of the headers are the
\* same key after HTTP case-normalization, and none is Content-Type.
C11_HeadersNeverCollide ==
    \A u \in DOMAIN created :
        LET headers == created[u].Headers
        IN  /\ \A k1, k2 \in DOMAIN headers :
                  k1 # k2 => CanonicalKey(k1) # CanonicalKey(k2)
            /\ \A k \in DOMAIN headers : CanonicalKey(k) # ContentTypeKey

\* What New makes of the typed parameters of a request: the first value of
\* each, a status that is missing or no integer being no status code.
TypedFieldsRouted(p, mock) ==
    /\ ParamStatus \notin DOMAIN p \/ p[ParamStatus] = <<>>
          => mock.Status \notin HTTP_CODES
    /\ ParamStatus \in DOMAIN p /\ p[ParamStatus] # <<>> =>
          IF Atoi(p[ParamStatus][1]).ok
          THEN mock.Status = Atoi(p[ParamStatus][1]).val
          ELSE mock.Status \notin HTTP_CODES
    /\ ParamContentType \in DOMAIN p /\ p[ParamContentType] # <<>> =>
          mock.ContentType = p[ParamContentType][1]
    /\ ParamCharset \in DOMAIN p /\ p[ParamCharset] # <<>> =>
          mock.Charset = p[ParamCharset][1]
    /\ DOMAIN mock.Headers \cap Reserved = {}

\* C17, as claimed: the typed fields come from the reserved names, which are
\* no keys of the headers, and every other parameter name is a key of the
\* headers, with its first value.
C17_EveryOtherNameIsAHeader ==
    \A h \in Handlers :
        Done(h, "New") =>
            LET p == loc[h].params
                mock == loc[h].arg
            IN  /\ TypedFieldsRouted(p, mock)
                /\ DOMAIN mock.Headers = DOMAIN p \ Reserved
                /\ \A n \in DOMAIN mock.Headers : mock.Headers[n] = p[n][1]

\* C17, amended: the typed fields come from the reserved names, which are no
\* keys of the headers; every other parameter name that has a value is a key
\* of the headers, with its first value; and a name without any value is
\* left out.
C17_EveryOtherNameWithAValueIsAHeader ==
    \A h \in Handlers :
        Done(h, "New") =>
            LET p == loc[h].params
                mock == loc[h].arg
            IN  /\ TypedFieldsRouted(p, mock)
                /\ DOMAIN mock.Headers = {n \in DOMAIN p \ Reserved : p[n] # <<>>}
                /\ \A n \in DOMAIN mock.Headers : mock.Headers[n] = p[n][1]

\* C17's case: New has built the record of a request whose status is no
\* integer, with a header of two values and a header name without a value.
C17_Witness ==
    \E h \in Handlers :
        /\ Done(h, "New")
        /\ ParamStatus \in DOMAIN loc[h].params
        /\ loc[h].params[ParamStatus] = <<NotANumber, Str200>>
        /\ XLanguage \in DOMAIN loc[h].params
        /\ loc[h].params[XLanguage] = <<TextHtml, Golang>>
        /\ XLanguageUpper \in DOMAIN loc[h].params
        /\ loc[h].params[XLanguageUpper] = <<>>
        /\ DOMAIN loc[h].arg.Headers = {XLanguage}
        /\ loc[h].arg.Status = -1

\* The keys of the response headers the writer sets for a record's headers.
NormalizedKeys(mock) == {CanonicalKey(k) : k \in DOMAIN mock.Headers}

\* The response is written in full.
Rendered == wpc = "end"

\* C12: the response written for a record has the record's status, the
\* Content-Type header "<contentType>; charset=<charset>", for each entry of
\* the record's headers a header of the case-normalized key with the entry's
\* value, one header per entry, and the record's body.
C12_ResponseIsTheRecord ==
    Rendered =>
        LET mock == wloc.mock
        IN  /\ out.statusCode = mock.Status
            /\ out.body = mock.Body
            /\ DOMAIN out.headers = {ContentTypeKey} \cup NormalizedKeys(mock)
            /\ out.headers[ContentTypeKey] = <<ContentTypeValue(mock)>>
            /\ \A k \in DOMAIN mock.Headers :
                  out.headers[CanonicalKey(k)] = <<mock.Headers[k]>>
            /\ Cardinality(DOMAIN out.headers) = 1 + Cardinality(DOMAIN mock.Headers)

\* The handler has answered its request, but for a record being rendered.
Responded(h) == pc[h] = "responded"

\* C14: when List or New has returned an error, the response is 409 with
\* the error as its message, and so neither the list nor a uuid; when Get
\* has returned the error of a missing file, the response is 404; and a
\* facade call that returned no error is not answered 409 or 404.
C14_ErrorsAreAnswered ==
    \A h \in Handlers :
        Responded(h) /\ loc[h].op \in {"List", "New", "Get"} =>
            IF ret[h].err # Nil
            THEN /\ out.statusCode = IF loc[h].op = "Get" THEN 404 ELSE 409
                 /\ out.body = <<"message", ret[h].err>>
            ELSE /\ out.statusCode = 200
                 /\ out.body[1] = IF loc[h].op = "List" THEN "list" ELSE "uuid"
                 /\ out.body[2] = ret[h].val

\* C14's case: List has failed to read the directory, which holds a record,
\* and the request is answered 409 with the error.
C14_Witness ==
    \E h \in Handlers :
        /\ Responded(h)
        /\ loc[h].op = "List"
        /\ ret[h].err = <<"readdir">>
        /\ out = ErrorResponse(409, <<"readdir">>)
        /\ DOMAIN store # {}

\* C15: a Clean with a limit below 1 returns 0 and no error, whether or not
\* the directory can be read, and has neither listed nor removed anything; a
\* Clean that returns an error had a limit of 1 or more, returns the error of
\* reading the directory with the number 0, and has removed nothing.
C15_CleanFailsWithItsList ==
    \A h \in Handlers :
        Done(h, "Clean") =>
            /\ loc[h].limit < 1 =>
                  /\ ret[h] = [err |-> Nil, val |-> 0]
                  /\ loc[h].entries = <<>> /\ loc[h].values = <<>>
                  /\ removed[h] = {}
            /\ ret[h].err # Nil =>
                  /\ loc[h].limit >= 1
                  /\ ret[h] = [err |-> <<"readdir">>, val |-> 0]
                  /\ loc[h].values = <<>> /\ loc[h].todo = <<>>
                  /\ removed[h] = {}

\* C15's case: Clean(1) has returned the error of reading a directory that
\* holds two records, both still there.
C15_Witness ==
    \E h \in Handlers :
        /\ Done(h, "Clean")
        /\ loc[h].limit = 1
        /\ ret[h] = [err |-> <<"readdir">>, val |-> 0]
        /\ Cardinality(Readable) = 2

\* The UUIDs of the records New built and failed to write.
Unwritten == issued \ DOMAIN created

\* C16: a New whose write failed returns the error and no identifier; a New
\* that returns an identifier has written the record under it; Get returns
\* an error for the identifier of a record whose write failed, and List
\* returns no summary of it.
C16_UnwrittenRecordIsNowhere ==
    \A h \in Handlers :
        /\ Done(h, "New") /\ InVocabularies(loc[h].arg) =>
              LET name == FilePath(loc[h].arg.UUID)
              IN  IF ret[h].err # Nil
                  THEN /\ ret[h] = [err |-> <<"write">>, val |-> Nil]
                       /\ loc[h].arg.UUID \in Unwritten
                  ELSE /\ ret[h].val = loc[h].arg.UUID
                       /\ name \in DOMAIN store
                       /\ store[name] = Marshal(loc[h].arg)
        /\ Done(h, "Get") /\ loc[h].id \in Unwritten =>
              ret[h].err # Nil /\ ret[h].val = Nil
        /\ Done(h, "List") /\ ret[h].err = Nil =>
              \A i \in 1..Len(ret[h].val) : ret[h].val[i].UUID \notin Unwritten

\* The number of created records with a later createdAt than the record of
\* the file.
NewerThan(name) ==
    Cardinality({u \in DOMAIN created :
                    StrLess(CreatedAtOf(name), created[u].CreatedAt)})

RECURSIVE SumNb(_)
SumNb(hs) ==
    IF hs = {} THEN 0
    ELSE LET h == CHOOSE g \in hs : TRUE
         IN  (IF loc[h].op = "Clean" THEN loc[h].nb ELSE 0) + SumNb(hs \ {h})

\* C18: with Cleans of one limit and News of different seconds interleaved
\* in any way, every record a Clean has removed has at least limit records
\* created after it, so the limit most recent records are in the store, which
\* holds at least min(limit, records created) records; no file is removed by
\* two Cleans, each Clean counts exactly the files it removed, and the
\* numbers the Cleans returned and are about to return add up to the number
\* of records removed.
C18_RacingCleansKeepTheMostRecent ==
    /\ \A h \in Handlers : \A name \in removed[h] : NewerThan(name) >= RaceLimit
    /\ \A u \in DOMAIN created :
          NewerThan(FilePath(u)) < RaceLimit => FilePath(u) \in DOMAIN store
    /\ Cardinality(Readable) >= (IF RaceLimit < Cardinality(DOMAIN created)
                                  THEN RaceLimit ELSE Cardinality(DOMAIN created))
    /\ \A h, g \in Handlers : h # g => removed[h] \cap removed[g] = {}
    /\ \A h \in Handlers :
          /\ loc[h].op = "Clean" => loc[h].nb = Cardinality(removed[h])
          /\ Done(h, "Clean") => ret[h] = [err |-> Nil, val |-> loc[h].nb]
    /\ counted + SumNb(Handlers) = Cardinality(DOMAIN created \ Readable)

\* C18's case: two Cleans that selected the same old records have returned,
\* each having removed some of them and failed to remove the others, and
\* the most recent record is left.
C18_Witness ==
    \E h, g \in Handlers :
        /\ h # g
        /\ Done(h, "Clean") /\ Done(g, "Clean")
        /\ Selected(h) = Selected(g)
        /\ removed[h] # {} /\ removed[g] # {}
        /\ removed[h] \cup removed[g] = Selected(h)
        /\ Cardinality(DOMAIN store) = RaceLimit
        /\ \E r \in removed[h] \cup removed[g] :
              \A k \in DOMAIN store : StrLess(CreatedAtOf(r), CreatedAtOf(k))

\* C19: after a Clean(limit) alone on count records, 1 <= limit < count, the
\* list Clean worked on is newest first whatever records share a second, the
\* store holds exactly the limit records at its head, the records removed are
\* the ones after them, and no record removed has a createdAt strictly later
\* than a record kept.
C19_TiesAreRankedToo ==
    \A h \in Handlers :
        Done(h, "Clean") /\ loc[h].limit >= 1 /\ Len(loc[h].values) > loc[h].limit =>
            LET values == loc[h].values
                limit == loc[h].limit
                names(from, to) == {FilePath(values[i].UUID) : i \in from..to}
            IN  /\ NewestFirst(values)
                /\ DOMAIN store = names(1, limit)
                /\ Cardinality(DOMAIN store) = limit
                /\ removed[h] = names(limit + 1, Len(values))
                /\ \A r \in removed[h], k \in DOMAIN store :
                      ~StrLess(CreatedAtOf(k), CreatedAtOf(r))

\* C19's case: of three records, two of them of the same second, Clean(1) has
\* kept one of the two and removed the other with the oldest.
C19_Witness ==
    \E h \in Handlers :
        /\ Done(h, "Clean")
        /\ loc[h].limit = 1
        /\ Cardinality(removed[h]) = 2
        /\ \E r \in removed[h], k \in DOMAIN store : CreatedAtOf(r) = CreatedAtOf(k)
        /\ \E r \in removed[h], k \in DOMAIN store :
              StrLess(CreatedAtOf(r), CreatedAtOf(k))

====
